---- MODULE Spec2Model ----
(***************************************************************************)
(* GitDocGenAI: repository acquisition (git clone with archive fallback),  *)
(* file scanning, per-file analysis and the documentation run that drives  *)
(* them (src/agents/repo_manager.py, src/agents/code_analyzer.py,          *)
(* src/app.py).                                                            *)
(*                                                                         *)
(* Text is modelled as a sequence of tokens.  A token is a run of          *)
(* characters that the code never splits: a plain alphanumeric run         *)
(* ("app"), a dot followed by an alphanumeric run (".py", ".git"), or a    *)
(* piece of URL punctuation ("/", ":", "https://").  Every string of the   *)
(* model has exactly one tokenisation, so equality of token sequences is   *)
(* equality of strings.  A path is a sequence of names (pathlib's parts).  *)
(***************************************************************************)
EXTENDS Integers, Sequences, FiniteSets, TLC

(***************************************************************************)
(* Bounds of the model.                                                    *)
(***************************************************************************)
MaxFiles == 2

(***************************************************************************)
(* Generic helpers on sequences.                                           *)
(***************************************************************************)
Last(s) == s[Len(s)]

Front(s) == SubSeq(s, 1, Len(s) - 1)

Range(s) == {s[i] : i \in 1..Len(s)}

RECURSIVE SelectSeqBy(_, _)
\* the elements of s not equal to x, in order
SelectSeqBy(s, x) ==
  IF s = <<>> THEN <<>>
  ELSE IF Head(s) = x THEN SelectSeqBy(Tail(s), x)
       ELSE <<Head(s)>> \o SelectSeqBy(Tail(s), x)

IsPrefix(p, s) == Len(p) <= Len(s) /\ SubSeq(s, 1, Len(p)) = p

(***************************************************************************)
(* Tokens.  DotTokens begin with the character '.'.                        *)
(***************************************************************************)
DotTokens ==
  {".py", ".js", ".jsx", ".ts", ".tsx", ".html", ".css", ".scss", ".sass",
   ".less", ".java", ".cpp", ".c", ".h", ".hpp", ".cs", ".php", ".rb", ".go",
   ".rs", ".swift", ".kt", ".scala", ".sh", ".bash", ".ps1", ".sql", ".xml",
   ".json", ".yaml", ".yml", ".md", ".rst", ".txt", ".dockerfile",
   ".makefile", ".r", ".m",
   ".PY", ".bin", ".zip", ".io",
   ".git", ".svn", ".hg", ".pytest_cache", ".next", ".nuxt", ".vscode",
   ".idea", ".DS_Store", ".env", ".venv", ".tox"}

\* str.lower() on one token: the tokens of the model that hold an upper-case
\* letter, each mapped to its lower-case form; every other token is unchanged
LowerToken(t) ==
  CASE t = ".PY" -> ".py"
    [] t = "README" -> "readme"
    [] t = "Makefile" -> "makefile"
    [] t = "HEAD" -> "head"
    [] t = ".DS_Store" -> ".ds_store"
    [] OTHER -> t

\* str.lower()
Lower(s) == [i \in 1..Len(s) |-> LowerToken(s[i])]

(***************************************************************************)
(* pathlib: PurePath.suffix and PurePath.name of a name (one path part).   *)
(* suffix is name[i:] for i = name.rfind('.') when 0 < i < len(name) - 1,  *)
(* and '' otherwise.  A dot token is never a bare '.', so only i = 0       *)
(* (the last dot token is the first token) gives ''.                       *)
(***************************************************************************)
LastDot(name) ==
  LET ds == {i \in 1..Len(name) : name[i] \in DotTokens}
  IN IF ds = {} THEN 0 ELSE CHOOSE i \in ds : \A j \in ds : j <= i

Suffix(name) ==
  IF LastDot(name) <= 1 THEN <<>>
  ELSE SubSeq(name, LastDot(name), Len(name))

(***************************************************************************)
(* Ordering of paths.  sorted() compares Path objects by their parts, and  *)
(* parts as strings by code point.  TokenOrder lists the tokens that occur *)
(* in file-system names in ascending code-point order ('-' < '.' < '/' <   *)
(* upper case < '_' < lower case).  In a file-system name a plain token is *)
(* followed only by a '.' or '-' token, both less than every alphanumeric   *)
(* character, so comparing names token by token is comparing them          *)
(* character by character.                                                 *)
(***************************************************************************)
TokenOrder ==
  <<"-dev", "-develop", "-main", "-master",
    ".PY", ".bin", ".git", ".js", ".py", ".zip",
    "/",
    "HEAD", "README", "app", "build", "dist", "lib", "node_modules", "notes", "repo",
    "src", "tmp", "tmpx", "x">>

TokRank(t) == CHOOSE i \in 1..Len(TokenOrder) : TokenOrder[i] = t

RECURSIVE NameLess(_, _)
\* str.__lt__ on two names
NameLess(a, b) ==
  IF b = <<>> THEN FALSE
  ELSE IF a = <<>> THEN TRUE
  ELSE IF Head(a) = Head(b) THEN NameLess(Tail(a), Tail(b))
  ELSE TokRank(Head(a)) < TokRank(Head(b))

RECURSIVE PathLess(_, _)
\* PurePath.__lt__: list comparison of the parts
PathLess(p, q) ==
  IF q = <<>> THEN FALSE
  ELSE IF p = <<>> THEN TRUE
  ELSE IF Head(p) = Head(q) THEN PathLess(Tail(p), Tail(q))
  ELSE NameLess(Head(p), Head(q))

RECURSIVE InsertSorted(_, _)
InsertSorted(x, s) ==
  IF s = <<>> THEN <<x>>
  ELSE IF PathLess(Head(s), x) THEN <<Head(s)>> \o InsertSorted(x, Tail(s))
  ELSE <<x>> \o s

\* a scan that returns the files in the order the file system listed them
Unsorted(s) == s

RECURSIVE Sorted(_)
\* sorted(files)
Sorted(s) ==
  IF s = <<>> THEN <<>> ELSE InsertSorted(Head(s), Sorted(Tail(s)))

(***************************************************************************)
(* The file system below the scratch directory.  An entry is a file, a      *)
(* symbolic link or a directory (the proper prefixes of entry paths are    *)
(* directories too):                                                       *)
(*   path  parts relative to the scratch directory                         *)
(*   kind  "file", or "dir" for a directory that exists by itself          *)
(*   stat  "ok"; "fail" when stat() raises an OSError that is_dir() takes  *)
(*         for "no such entry" (ENOENT of a broken symbolic link or of a   *)
(*         file that vanished); "denied" when stat() raises                *)
(*         PermissionError (EACCES below a directory without search        *)
(*         permission), which is_dir() lets through                        *)
(*   open  "ok", or "fail" when open() raises (permission denied)          *)
(*   size  st_size                                                         *)
(*   body  the bytes of the file, one element per run of bytes of a class: *)
(*         "txt" printable ASCII, "ws" ASCII whitespace, "bad" bytes that  *)
(*         are not valid UTF-8; where the text of a file matters, "sp" is  *)
(*         the space and "u8" a valid multi-byte UTF-8 sequence            *)
(***************************************************************************)
TempDir == << <<"/">>, <<"tmp">>, <<"tmpx">> >>

AbsPath(rel) == TempDir \o rel

\* Path.exists() / Path.is_dir() for a path relative to the scratch directory
IsDir(fsys, rel) ==
  \/ \E e \in fsys : e.path = rel /\ e.kind = "dir"
  \/ \E e \in fsys : Len(e.path) > Len(rel) /\ IsPrefix(rel, e.path)

IsEntry(fsys, rel) == \E e \in fsys : e.path = rel

Exists(fsys, rel) == IsDir(fsys, rel) \/ IsEntry(fsys, rel)

\* the entries below rel
EntriesBelow(fsys, rel) ==
  {e \in fsys : Len(e.path) > Len(rel) /\ IsPrefix(rel, e.path)}

\* the directories strictly below rel
DirsBelow(fsys, rel) ==
  UNION {{SubSeq(e.path, 1, n) : n \in (Len(rel) + 1)..(Len(e.path) - 1)} :
         e \in EntriesBelow(fsys, rel)}

\* the entry at an absolute path
EntryAt(fsys, abs) ==
  CHOOSE e \in fsys : AbsPath(e.path) = abs

\* all orders of a finite set
Perms(S) ==
  {s \in [1..Cardinality(S) -> S] : \A i, j \in 1..Cardinality(S) : s[i] = s[j] => i = j}

(***************************************************************************)
(* RepoManager: the scanner's tables.                                      *)
(***************************************************************************)
supported_extensions ==
  {<<t>> : t \in
    {".py", ".js", ".jsx", ".ts", ".tsx", ".html", ".css", ".scss",
     ".sass", ".less", ".java", ".cpp", ".c", ".h", ".hpp", ".cs",
     ".php", ".rb", ".go", ".rs", ".swift", ".kt", ".scala", ".sh",
     ".bash", ".ps1", ".sql", ".xml", ".json", ".yaml", ".yml",
     ".md", ".rst", ".txt", ".dockerfile", ".makefile", ".r", ".m"}}

skip_dirs ==
  {<<t>> : t \in
    {".git", ".svn", ".hg", "__pycache__", ".pytest_cache",
     "node_modules", ".next", ".nuxt", "build", "dist",
     ".vscode", ".idea", ".DS_Store", "venv", ".env",
     ".venv", "env", "virtualenv", ".tox"}}

important_names ==
  {<<t>> : t \in
    {"dockerfile", "makefile", "readme", "license", "changelog",
     "contributing", "authors", "install", "news"}}

MaxScanSize == 5 * 1024 * 1024

\* a scanner that looks for a denylisted name at the top of the tree only
InSkippedDirTopOnly(abs) ==
  Len(abs) > Len(TempDir) + 1 /\ abs[Len(TempDir) + 2] \in skip_dirs

\* the scanner's exclusion test: any(skip_dir in file_path.parts ...)
InSkippedDir(abs) == \E k \in 1..Len(abs) : abs[k] \in skip_dirs

\* the two inclusion tests on the name of a file
HasSupportedName(name) ==
  \/ Lower(Suffix(name)) \in supported_extensions
  \/ Suffix(name) = <<>> /\ Lower(name) \in important_names

\* the size test: stat() raising OSError excludes the entry, as does a size
\* above the limit
SizeOk(e) == e.stat = "ok" /\ ~(e.size > MaxScanSize)

RECURSIVE ScanLoop(_, _, _)
\* the loop of scan_files over the paths rglob yields, in that order
ScanLoop(fsys, todo, files) ==
  IF todo = <<>> THEN files
  ELSE LET file_path == Head(todo)
           rest == Tail(todo)
       IN IF IsDir(fsys, SubSeq(file_path, Len(TempDir) + 1, Len(file_path)))
            THEN ScanLoop(fsys, rest, files)
          ELSE IF InSkippedDir(file_path)
            THEN ScanLoop(fsys, rest, files)
          ELSE IF ~SizeOk(EntryAt(fsys, file_path))
            THEN ScanLoop(fsys, rest, files)
          ELSE IF HasSupportedName(Last(file_path))
            THEN ScanLoop(fsys, rest, Append(files, file_path))
          ELSE ScanLoop(fsys, rest, files)

\* repo_path.rglob('*'): every directory and entry below the root, in an order
\* the file system decides.  The model takes the entries in every order, after
\* the directories.
RglobOrders(fsys, root) ==
  LET dirs == CHOOSE s \in Perms(DirsBelow(fsys, root)) : TRUE
  IN {[i \in 1..Len(dirs) |-> AbsPath(dirs[i])] \o
      [i \in 1..Len(p) |-> AbsPath(p[i].path)] :
        p \in Perms(EntriesBelow(fsys, root))}

\* file_path.is_dir() of the loop raises: Path.is_dir answers False for the
\* errors of a missing entry and re-raises every other OSError
ScanRaises(fsys, order) ==
  \E i \in 1..Len(order) :
    /\ ~IsDir(fsys, SubSeq(order[i], Len(TempDir) + 1, Len(order[i])))
    /\ EntryAt(fsys, order[i]).stat = "denied"

\* scan_files(repo_path) when rglob yields the paths in the given order and
\* no test of the loop raises
scan_files(fsys, order) == Sorted(ScanLoop(fsys, order, <<>>))

(***************************************************************************)
(* Repository URLs: validate_github_url, _extract_repo_name, _get_zip_url. *)
(***************************************************************************)
UrlPunct == {"/", ":", "https://", "http://", "git@"}

\* a run of characters of the class [a-zA-Z0-9._-], at least one
IsNameRun(s) == s # <<>> /\ \A i \in 1..Len(s) : s[i] \notin UrlPunct

\* s.rstrip('/')
RECURSIVE RstripSlash(_)
RstripSlash(s) ==
  IF s # <<>> /\ Last(s) = "/" THEN RstripSlash(Front(s)) ELSE s

\* the index of the first "/" of u at or after k, 0 when there is none
FirstSlashFrom(u, k) ==
  LET qs == {q \in k..Len(u) : u[q] = "/"}
  IN IF qs = {} THEN 0 ELSE CHOOSE q \in qs : \A r \in qs : q <= r

\* the index of the last "/" of u, 0 when there is none
LastSlash(u) ==
  LET qs == {q \in 1..Len(u) : u[q] = "/"}
  IN IF qs = {} THEN 0 ELSE CHOOSE q \in qs : \A r \in qs : r <= q

\* validate_github_url: the five patterns.  The patterns with \.git before
\* the optional slash accept nothing the ones without it reject, '.' being
\* in the character class; the ssh pattern wants a repository name that
\* ends in .git and no trailing slash.
validate_github_url(url) ==
  /\ Len(url) >= 5
  /\ \/ /\ url[1] \in {"https://", "http://"}
        /\ url[2] = "github.com"
        /\ url[3] = "/"
        /\ LET q == FirstSlashFrom(url, 4)
               rest == SubSeq(url, q + 1, Len(url))
           IN /\ q > 4
              /\ IsNameRun(SubSeq(url, 4, q - 1))
              /\ \/ IsNameRun(rest)
                 \/ rest # <<>> /\ Last(rest) = "/" /\ IsNameRun(Front(rest))
     \/ /\ url[1] = "git@"
        /\ url[2] = "github.com"
        /\ url[3] = ":"
        /\ LET q == FirstSlashFrom(url, 4)
               rest == SubSeq(url, q + 1, Len(url))
           IN /\ q > 4
              /\ IsNameRun(SubSeq(url, 4, q - 1))
              /\ Len(rest) >= 2
              /\ Last(rest) = ".git"
              /\ IsNameRun(Front(rest))

\* the group ([^/]+?) followed by (?:\.git)?/?$ on the text t: the shortest
\* non-empty slash-free text that leaves an optional .git and an optional
\* slash before the end; <<>> when t does not match
LazyGroup(t) ==
  LET t1 == IF t # <<>> /\ Last(t) = "/" THEN Front(t) ELSE t
      t2 == IF t1 # <<>> /\ Last(t1) = ".git" THEN Front(t1) ELSE t1
      ok(g) == g # <<>> /\ "/" \notin Range(g)
  IN IF ok(t2) THEN t2 ELSE IF ok(t1) THEN t1 ELSE <<>>

\* re.search(r'github\.com/[^/]+/([^/]+?)(?:\.git)?/?$', url).group(1),
\* <<>> when there is no match
SearchOwnerRepo(url) ==
  LET ps == {p \in 1..(Len(url) - 3) :
               /\ url[p] = "github.com"
               /\ url[p + 1] = "/"
               /\ FirstSlashFrom(url, p + 2) > p + 2
               /\ LazyGroup(SubSeq(url, FirstSlashFrom(url, p + 2) + 1, Len(url))) # <<>>}
  IN IF ps = {} THEN <<>>
     ELSE LET p == CHOOSE x \in ps : \A y \in ps : x <= y
          IN LazyGroup(SubSeq(url, FirstSlashFrom(url, p + 2) + 1, Len(url)))

\* the fallback of _extract_repo_name:
\* repo_url.rstrip('/').split('/')[-1].replace('.git', '')
LastSegmentNoGit(url) ==
  LET u == RstripSlash(url)
  IN SelectSeqBy(SubSeq(u, LastSlash(u) + 1, Len(u)), ".git")

\* _extract_repo_name.  Its second pattern matches the same texts as the
\* first, with the owner inside the group, and the group is then cut at the
\* last slash: it gives the first pattern's group, and is reached only when
\* the first pattern fails.
extract_repo_name(url) ==
  IF SearchOwnerRepo(url) # <<>> THEN SearchOwnerRepo(url)
  ELSE LastSegmentNoGit(url)

\* clean_url of _get_zip_url: repo_url.rstrip('/').replace('.git', '')
CleanUrl(url) == SelectSeqBy(RstripSlash(url), ".git")

\* 'github.com' in clean_url
IsGithubUrl(clean_url) == "github.com" \in Range(clean_url)

\* a prober that tries master before main
BranchesMasterFirst == <<"master", "main", "dev", "develop">>

\* the candidate branches of _get_zip_url, in the order it probes them
Branches == <<"main", "master", "dev", "develop">>

\* f"{clean_url}/archive/refs/heads/{branch}.zip"
ArchiveUrl(clean_url, branch) ==
  clean_url \o <<"/archive/refs/heads/", branch, ".zip">>

(***************************************************************************)
(* CodeAnalyzer.                                                           *)
(***************************************************************************)
max_file_size == 500 * 1024

encoding_attempts == <<"utf-8", "utf-8-sig", "latin1", "cp1252", "iso-8859-1">>

\* the character of one element of a body under a codec: ASCII bytes ("txt",
\* "ws", and "sp" for the space) are the characters of the same code; a valid
\* multi-byte UTF-8 sequence ("u8") is one character above U+007F ("uni")
\* for the UTF-8 codecs; the single-byte codecs map every byte above 0x7F to
\* a character of their own ("hi")
CharOf(encoding, b) ==
  IF b \in {"txt", "ws", "sp"} THEN b
  ELSE IF encoding \in {"utf-8", "utf-8-sig"} /\ b = "u8" THEN "uni"
  ELSE "hi"

\* a decoder that keeps the ASCII bytes only
DecodeAsciiOnly(encoding, body) ==
  SelectSeqBy(SelectSeqBy(body, "bad"), "u8")

\* bytes.decode(encoding, errors='ignore') on the runs of a file: the UTF-8
\* codecs drop the bytes that are not valid UTF-8, the single-byte codecs map
\* every byte to a character
DecodeIgnore(encoding, body) ==
  IF encoding \in {"utf-8", "utf-8-sig"}
    THEN [i \in 1..Len(SelectSeqBy(body, "bad")) |->
            CharOf(encoding, SelectSeqBy(body, "bad")[i])]
    ELSE [i \in 1..Len(body) |-> CharOf(encoding, body[i])]

\* with errors='ignore' no codec raises UnicodeDecodeError
DecodeRaises(encoding, body) == FALSE

\* not content.strip(): the text is empty or whitespace only
IsBlank(content) == \A i \in 1..Len(content) : content[i] \in {"ws", "sp"}

NoContent == [ok |-> FALSE, content |-> <<>>]

RECURSIVE ReadLoop(_, _)
\* the loop of _read_file_content over the encodings still to try
ReadLoop(e, encodings) ==
  IF encodings = <<>> THEN NoContent
  ELSE IF e.open = "fail" THEN NoContent
  ELSE IF DecodeRaises(Head(encodings), e.body) THEN ReadLoop(e, Tail(encodings))
  ELSE IF IsBlank(DecodeIgnore(Head(encodings), e.body)) THEN NoContent
  ELSE [ok |-> TRUE, content |-> DecodeIgnore(Head(encodings), e.body)]

\* _read_file_content(file_path)
read_file_content(e) == ReadLoop(e, encoding_attempts)

\* an analyzer that rejects files from the limit's size on
TooLargeStrict(e) == e.size >= max_file_size

\* the size test of analyze_file
TooLarge(e) == e.size > max_file_size

\* relative_path of analyze_file: the last two parts of the path when it has
\* more than two parts, else the last part
RelativePathOf(file_path) ==
  IF Len(file_path) > 2
    THEN SubSeq(file_path, Len(file_path) - 1, Len(file_path))
    ELSE <<Last(file_path)>>

\* _determine_language(file_path): the language of the extension, then of the
\* name, else 'text'
determine_language(name) ==
  LET suffix == Lower(Suffix(name))
  IN CASE suffix = <<".py">> -> "python"
       [] suffix \in {<<".js">>, <<".jsx">>} -> "javascript"
       [] suffix \in {<<".ts">>, <<".tsx">>} -> "typescript"
       [] suffix = <<".html">> -> "html"
       [] suffix = <<".css">> -> "css"
       [] suffix = <<".scss">> -> "scss"
       [] suffix = <<".sass">> -> "sass"
       [] suffix = <<".less">> -> "less"
       [] suffix = <<".java">> -> "java"
       [] suffix \in {<<".cpp">>, <<".hpp">>} -> "cpp"
       [] suffix \in {<<".c">>, <<".h">>} -> "c"
       [] suffix = <<".cs">> -> "csharp"
       [] suffix = <<".php">> -> "php"
       [] suffix = <<".rb">> -> "ruby"
       [] suffix = <<".go">> -> "go"
       [] suffix = <<".rs">> -> "rust"
       [] suffix = <<".swift">> -> "swift"
       [] suffix = <<".kt">> -> "kotlin"
       [] suffix = <<".scala">> -> "scala"
       [] suffix \in {<<".sh">>, <<".bash">>} -> "bash"
       [] suffix = <<".ps1">> -> "powershell"
       [] suffix = <<".sql">> -> "sql"
       [] suffix = <<".json">> -> "json"
       [] suffix = <<".xml">> -> "xml"
       [] suffix \in {<<".yaml">>, <<".yml">>} -> "yaml"
       [] suffix = <<".md">> -> "markdown"
       [] suffix = <<".rst">> -> "restructuredtext"
       [] suffix = <<".r">> -> "r"
       [] suffix = <<".m">> -> "matlab"
       [] Lower(name) = <<"dockerfile">> -> "dockerfile"
       [] Lower(name) = <<"makefile">> -> "makefile"
       [] OTHER -> "text"

\* _determine_file_type(file_path): the type of the extension in
\* type_mapping, 'unknown' for an extension that is not in it
determine_file_type(name) ==
  LET suffix == Lower(Suffix(name))
  IN CASE suffix = <<".html">> -> "web"
       [] suffix \in {<<".css">>, <<".scss">>, <<".sass">>, <<".less">>} -> "stylesheet"
       [] suffix \in {<<".js">>, <<".jsx">>, <<".ts">>, <<".tsx">>} -> "script"
       [] suffix \in {<<".py">>, <<".java">>, <<".cpp">>, <<".c">>, <<".cs">>,
                      <<".php">>, <<".rb">>, <<".go">>, <<".rs">>, <<".swift">>,
                      <<".kt">>, <<".scala">>, <<".r">>, <<".m">>} -> "source"
       [] suffix \in {<<".h">>, <<".hpp">>} -> "header"
       [] suffix \in {<<".sh">>, <<".bash">>, <<".ps1">>} -> "script"
       [] suffix \in {<<".json">>, <<".xml">>, <<".yaml">>, <<".yml">>} -> "data"
       [] suffix = <<".sql">> -> "database"
       [] suffix \in {<<".md">>, <<".rst">>} -> "documentation"
       [] suffix = <<".txt">> -> "text"
       [] OTHER -> "unknown"

NoRecord == [ok |-> FALSE]

\* what analyze_file does when no exception is raised in it
AnalyzeBody(e, file_path) ==
  IF TooLarge(e) THEN NoRecord
  ELSE IF ~read_file_content(e).ok THEN NoRecord
  ELSE [ok |-> TRUE,
        file_path |-> file_path,
        relative_path |-> RelativePathOf(file_path),
        content |-> read_file_content(e).content,
        file_type |-> determine_file_type(Last(file_path)),
        language |-> determine_language(Last(file_path)),
        size |-> e.size]

\* an exception is raised inside analyze_file: stat() fails
AnalyzeRaises(e) == e.stat # "ok"

\* an analyze_file without its except clause: the exception leaves it
analyze_file_unguarded(e, file_path) ==
  IF AnalyzeRaises(e) THEN [raised |-> TRUE, result |-> NoRecord]
  ELSE [raised |-> FALSE, result |-> AnalyzeBody(e, file_path)]

\* analyze_file(file_path): a record, or none; "raised" tells whether an
\* exception left the function (the except clause returns none, so it never does)
analyze_file(e, file_path) ==
  IF AnalyzeRaises(e) THEN [raised |-> FALSE, result |-> NoRecord]
  ELSE [raised |-> FALSE, result |-> AnalyzeBody(e, file_path)]

(***************************************************************************)
(* Entries and trees.                                                      *)
(***************************************************************************)
File(path, size, body, stat, open) ==
  [path |-> path, kind |-> "file", size |-> size, body |-> body,
   stat |-> stat, open |-> open]

Dir(path) ==
  [path |-> path, kind |-> "dir", size |-> 0, body |-> <<>>,
   stat |-> "ok", open |-> "fail"]

\* the entry e of a tree, placed below the directory at path top
Under(top, e) == [e EXCEPT !.path = top \o e.path]

\* the entry e below the directory from, after from was renamed to to
Reroot(e, from, to) ==
  [e EXCEPT !.path = to \o SubSeq(e.path, Len(from) + 1, Len(e.path))]

\* what git clone --depth 1 writes at the clone path: the directory, git's
\* own files and the files of the repository
CloneTree(name, tree) ==
  {Dir(<<name>>),
   File(<<name, <<".git">>, <<"HEAD">>>>, 21, <<"txt", "ws">>, "ok", "ok")}
  \cup {Under(<<name>>, e) : e \in tree}

\* the suffix the archive service gives the top-level directory of an archive
BranchSuffix(branch) ==
  CASE branch = "main" -> "-main"
    [] branch = "master" -> "-master"
    [] branch = "dev" -> "-dev"
    [] branch = "develop" -> "-develop"

\* the content of the branch archive: one top-level directory <repo>-<branch>
\* holding the files of the repository
ArchiveTree(name, branch, tree) ==
  {Dir(<<name \o <<BranchSuffix(branch)>>>>)}
  \cup {Under(<<name \o <<BranchSuffix(branch)>>>>, e) : e \in tree}

\* the names of the directories directly in the scratch directory
TopDirs(fsys) == {e.path[1] : e \in {x \in fsys : IsDir(fsys, <<x.path[1]>>)}}

(***************************************************************************)
(* Inputs of a run: the repository URLs a user may enter and the trees a   *)
(* repository may hold (paths relative to the repository root).            *)
(***************************************************************************)
Urls ==
  {<<"https://", "github.com", "/", "o", "/", "repo">>,
   <<"https://", "github.com", "/", "o", "/", "dist", ".git", "/">>,
   <<"git@", "github.com", ":", "o", "/", "repo", ".git">>,
   <<"https://", "gitlab.com", "/", "o", "/", "repo">>}

RepoFiles ==
  {File(<< <<"app", ".py">> >>, 3, <<"txt">>, "ok", "ok"),
   File(<< <<"src">>, <<"app", ".PY">> >>, 500 * 1024, <<"txt", "ws">>, "ok", "ok"),
   File(<< <<"README">> >>, 2, <<"ws">>, "ok", "ok"),
   File(<< <<"node_modules">>, <<"lib", ".js">> >>, 3, <<"txt">>, "ok", "ok"),
   File(<< <<"notes", ".bin">> >>, 3, <<"bad", "txt">>, "ok", "ok"),
   File(<< <<"src", ".py">> >>, 500 * 1024 + 1, <<"txt">>, "ok", "ok"),
   File(<< <<"lib", ".js">> >>, 0, <<>>, "fail", "fail"),
   File(<< <<"lib">>, <<"src">>, <<"app", ".PY">> >>, 3, <<"txt">>, "ok", "ok")}

RECURSIVE SubsetsUpTo(_, _)
\* the subsets of S of at most n elements
SubsetsUpTo(S, n) ==
  IF n = 0 THEN {{}}
  ELSE SubsetsUpTo(S, n - 1) \cup {t \cup {x} : t \in SubsetsUpTo(S, n - 1), x \in S}

Trees == SubsetsUpTo(RepoFiles, MaxFiles)

(***************************************************************************)
(* State of the application: the session (processing, documentation), the  *)
(* position of generate_documentation (pc, exc), the scratch directory     *)
(* (temp_exists, fs, zip_exists), and the locals of the run.               *)
(***************************************************************************)
VARIABLES
  pc,              \* position in generate_documentation; "idle" between runs
  processing,      \* st.session_state.processing
  documentation,   \* st.session_state.documentation: 0 for None, else the
                   \* number of the run whose README it holds (Earlier:
                   \* a run made before those of the model)
  runs,            \* number of runs started
  repo_url,        \* argument of the run
  remote,          \* the files of the repository at repo_url
  temp_exists,     \* the scratch directory exists
  fs,              \* the entries below the scratch directory, the archive file apart
  zip_exists,      \* the downloaded archive file exists
  transports,      \* the transports clone_repository invoked, in order
  clone_result,    \* how _git_clone ended: "none" before it has
  acq,             \* clone_repository: "none", "returned" or "raised"
  probes,          \* the probes _get_zip_url made so far: [branch, status]
  zip_url,         \* the archive URL _get_zip_url returned, <<>> before
  repo_path,       \* the path clone_repository returned (relative to TempDir)
  file_list,       \* result of scan_files
  file_i,          \* index of the next file to analyze
  analyzed_files,  \* the records collected so far
  warnings,        \* number of files whose analysis raised into the run's loop
  exc,             \* an exception is propagating out of the with block
  reported,        \* what the run told the user: "none", "no_files", "exception"
  arg,             \* a function of the agents called on its own: its arguments
  ret              \* and what it returned; [fn |-> "none"] when none is

vars ==
  <<pc, processing, documentation, runs, repo_url, remote, temp_exists, fs,
    zip_exists, transports, clone_result, acq, probes, zip_url, repo_path,
    file_list, file_i, analyzed_files, warnings, exc, reported, arg, ret>>

session == <<processing, documentation, runs>>

inputs == <<repo_url, remote>>

scratch == <<temp_exists, fs, zip_exists>>

acquisition == <<transports, clone_result, acq, probes, zip_url, repo_path>>

analysis == <<file_list, file_i, analyzed_files, warnings>>

call == <<arg, ret>>

NoCall == [fn |-> "none"]

MaxRuns == 1

Earlier == -1

Init ==
  /\ pc = "idle"
  /\ processing = FALSE
  /\ documentation = 0
  /\ runs = 0
  /\ repo_url = <<>>
  /\ remote = {}
  /\ temp_exists = FALSE
  /\ fs = {}
  /\ zip_exists = FALSE
  /\ transports = <<>>
  /\ clone_result = "none"
  /\ acq = "none"
  /\ probes = <<>>
  /\ zip_url = <<>>
  /\ repo_path = <<>>
  /\ file_list = <<>>
  /\ file_i = 1
  /\ analyzed_files = <<>>
  /\ warnings = 0
  /\ exc = FALSE
  /\ reported = "none"
  /\ arg = NoCall
  /\ ret = NoCall

\* main: the button is enabled for a valid URL while no run is in progress;
\* generate_documentation sets the flag and creates the scratch directory
StartRun ==
  /\ pc = "idle"
  /\ ~processing
  /\ runs < MaxRuns
  /\ \E url \in Urls, tree \in Trees :
       /\ validate_github_url(url)
       /\ repo_url' = url
       /\ remote' = tree
  /\ processing' = TRUE
  /\ runs' = runs + 1
  /\ temp_exists' = TRUE
  /\ fs' = {}
  /\ zip_exists' = FALSE
  /\ transports' = <<>>
  /\ clone_result' = "none"
  /\ acq' = "none"
  /\ probes' = <<>>
  /\ zip_url' = <<>>
  /\ repo_path' = <<>>
  /\ file_list' = <<>>
  /\ file_i' = 1
  /\ analyzed_files' = <<>>
  /\ warnings' = 0
  /\ exc' = FALSE
  /\ reported' = "none"
  /\ pc' = "agents"
  /\ UNCHANGED documentation
  /\ UNCHANGED call

\* generate_documentation builds the agents of the run.  ReadmeGenerator is
\* given color_scheme, a name that generate_documentation reads as a global
\* of the module and that the script binds only as a local of main: unless
\* its caller has bound the global, the lookup raises NameError inside the
\* with block and the run ends in the except clause before any clone.
ConstructAgents ==
  /\ pc = "agents"
  /\ \E color_scheme_bound \in BOOLEAN :
       IF color_scheme_bound
         THEN /\ pc' = "clone"
              /\ UNCHANGED exc
         ELSE /\ exc' = TRUE
              /\ pc' = "unwind"
  /\ UNCHANGED <<session, inputs, scratch, acquisition, analysis, reported>>
  /\ UNCHANGED call

CloneOutcomes == {"ok", "exit_nonzero", "timeout", "no_git"}

\* what a clone that was killed at its timeout leaves at the clone path:
\* the directory, git's files and some of the repository's files
PartialClones(name, tree) ==
  {{e \in CloneTree(name, tree) : e.kind = "dir" \/ e.path[2] = <<".git">>}
     \cup {Under(<<name>>, e) : e \in part} :
   part \in {q \in SUBSET tree : q # tree \/ tree = {}}}

\* the scratch directory after _git_clone ended with the given outcome; git
\* removes what it wrote when it fails by itself
AfterClone(fsys, name, tree, outcome) ==
  CASE outcome = "ok" -> {fsys \cup CloneTree(name, tree)}
    [] outcome = "timeout" -> {fsys \cup p : p \in PartialClones(name, tree)}
    [] OTHER -> {fsys}

\* a clone_repository without the except clause: the failure of the clone
\* is the failure of the acquisition
CloneFailurePropagates == "unwind"

\* where clone_repository goes when _git_clone raised: the except clause
\* calls _download_zip
AfterCloneFailure == "zip_url"

\* clone_repository calls _git_clone; when it raises, _download_zip
GitClone ==
  /\ pc = "clone"
  /\ \E outcome \in CloneOutcomes :
       /\ clone_result' = outcome
       /\ fs' \in AfterClone(fs, extract_repo_name(repo_url), remote, outcome)
       /\ IF outcome = "ok"
            THEN /\ transports' = Append(transports, "git")
                 /\ acq' = "returned"
                 /\ repo_path' = <<extract_repo_name(repo_url)>>
                 /\ exc' = FALSE
                 /\ pc' = "scan"
            ELSE IF AfterCloneFailure = "zip_url"
            THEN /\ transports' = transports \o <<"git", "zip">>
                 /\ acq' = "none"
                 /\ exc' = FALSE
                 /\ pc' = "zip_url"
                 /\ UNCHANGED repo_path
            ELSE /\ transports' = Append(transports, "git")
                 /\ acq' = "raised"
                 /\ exc' = TRUE
                 /\ pc' = "unwind"
                 /\ UNCHANGED repo_path
  /\ UNCHANGED <<session, inputs, temp_exists, zip_exists, probes, zip_url,
                 analysis, reported>>
  /\ UNCHANGED call

\* requests speaks http and https only: for any other URL it raises
IsHttpUrl(url) == url # <<>> /\ url[1] \in {"https://", "http://"}

\* what requests.head may do for a URL: a 200, another status, an exception
ProbeStatuses(url) ==
  IF IsHttpUrl(url) THEN {"200", "404", "raise"} ELSE {"raise"}

\* how requests.get and raise_for_status may end for a URL
DownloadOutcomes(url) ==
  IF IsHttpUrl(url) THEN {"ok", "fail"} ELSE {"fail"}

\* one step of _get_zip_url: it raises when the cleaned URL holds no
\* 'github.com'; else it probes the next branch with requests.head and
\* returns that branch's archive URL on a 200; after the last branch it
\* returns the archive URL of main
GetZipUrl ==
  /\ pc = "zip_url"
  /\ IF ~IsGithubUrl(CleanUrl(repo_url))
       THEN /\ acq' = "raised"
            /\ exc' = TRUE
            /\ pc' = "unwind"
            /\ UNCHANGED <<probes, zip_url>>
     ELSE IF Len(probes) < Len(Branches)
       THEN \E status \in ProbeStatuses(CleanUrl(repo_url)) :
              LET branch == Branches[Len(probes) + 1]
              IN /\ probes' = Append(probes, [branch |-> branch, status |-> status])
                 /\ IF status = "200"
                      THEN /\ zip_url' = ArchiveUrl(CleanUrl(repo_url), branch)
                           /\ pc' = "download"
                      ELSE UNCHANGED <<zip_url, pc>>
                 /\ UNCHANGED <<acq, exc>>
     ELSE /\ zip_url' = ArchiveUrl(CleanUrl(repo_url), "main")
          /\ pc' = "download"
          /\ UNCHANGED <<probes, acq, exc>>
  /\ UNCHANGED <<session, inputs, scratch, transports, clone_result,
                 repo_path, analysis, reported>>
  /\ UNCHANGED call

\* the branch an archive URL names
BranchOf(url) == url[Len(url) - 1]

\* _download_zip: requests.get and raise_for_status, then the archive is
\* written to <repo_name>.zip in the scratch directory
Download ==
  /\ pc = "download"
  /\ probes' = <<>>
  /\ \E outcome \in DownloadOutcomes(zip_url) :
       IF outcome = "ok"
         THEN /\ zip_exists' = TRUE
              /\ pc' = "extract"
              /\ UNCHANGED <<acq, exc>>
         ELSE /\ acq' = "raised"
              /\ exc' = TRUE
              /\ pc' = "unwind"
              /\ UNCHANGED zip_exists
  /\ UNCHANGED <<session, inputs, temp_exists, fs, transports, clone_result,
                 zip_url, repo_path, analysis, reported>>
  /\ UNCHANGED call

\* what extractall has written when it ends with the given outcome: all of
\* the archive, nothing (ZipFile raises BadZipFile), or part of it
Extracted(archive, outcome) ==
  CASE outcome = "ok" -> {archive}
    [] outcome = "bad_zip" -> {{}}
    [] outcome = "midway" ->
         {{e \in archive : e.kind = "dir"} \cup part :
          part \in {q \in SUBSET {e \in archive : e.kind = "file"} :
                      q # {e \in archive : e.kind = "file"}}}

\* extractall writes over what is there: the entries of fsys, those replaced
\* that the archive holds too
WriteOver(fsys, new) ==
  {e \in fsys : \A n \in new : n.path # e.path} \cup new

\* response.content: in a run, the archive the repository host makes of the
\* branch; when _download_zip is called on its own, the archive that the
\* call is answered with
Archive ==
  IF arg.fn = "download_zip" THEN arg.archive
  ELSE ArchiveTree(extract_repo_name(repo_url), BranchOf(zip_url), remote)

\* _download_zip: zipfile.ZipFile(zip_path).extractall(temp_dir)
Extract ==
  /\ pc = "extract"
  /\ \E outcome \in {"ok", "bad_zip", "midway"} :
       /\ fs' \in {WriteOver(fs, x) : x \in Extracted(Archive, outcome)}
       /\ IF outcome = "ok"
            THEN /\ pc' = "move"
                 /\ UNCHANGED <<acq, exc>>
            ELSE /\ acq' = "raised"
                 /\ exc' = TRUE
                 /\ pc' = "unwind"
  /\ UNCHANGED <<session, inputs, temp_exists, zip_exists, transports,
                 clone_result, probes, zip_url, repo_path, analysis, reported>>
  /\ UNCHANGED call

\* os.rename(src, dst) of a directory
Rename(fsys, src, dst) ==
  {IF IsPrefix(src, e.path) THEN Reroot(e, src, dst) ELSE e : e \in fsys}

\* shutil.move(src, dst) of a directory: into dst when dst is a directory
\* (an error when dst holds an entry of src's name), else to dst
ShutilMove(fsys, src, dst) ==
  IF IsDir(fsys, dst)
    THEN IF Exists(fsys, dst \o <<Last(src)>>)
           THEN [raised |-> TRUE, fs |-> fsys]
           ELSE [raised |-> FALSE, fs |-> Rename(fsys, src, dst \o <<Last(src)>>)]
    ELSE [raised |-> FALSE, fs |-> Rename(fsys, src, dst)]

\* lines 78-87 of _download_zip: the scratch directories it may end with,
\* one for every directory iterdir may list first
MoveExtractedDir(fsys, repo_name) ==
  LET extracted_dirs == TopDirs(fsys) \ {repo_name}
      all_dirs == TopDirs(fsys)
  IN IF extracted_dirs # {}
       THEN {ShutilMove(fsys, <<d>>, <<repo_name>>) : d \in extracted_dirs}
     ELSE IF ~Exists(fsys, <<repo_name>>) /\ all_dirs # {}
       THEN {ShutilMove(fsys, <<d>>, <<repo_name>>) : d \in all_dirs}
     ELSE {[raised |-> FALSE, fs |-> fsys]}

\* _download_zip: the extracted directory is moved to the target path, the
\* archive file is removed, the target path is returned
MoveExtracted ==
  /\ pc = "move"
  /\ \E m \in MoveExtractedDir(fs, extract_repo_name(repo_url)) :
       /\ fs' = m.fs
       /\ IF m.raised
            THEN /\ acq' = "raised"
                 /\ exc' = TRUE
                 /\ pc' = "unwind"
                 /\ UNCHANGED <<zip_exists, repo_path>>
            ELSE /\ zip_exists' = FALSE
                 /\ acq' = "returned"
                 /\ repo_path' = <<extract_repo_name(repo_url)>>
                 /\ pc' = "scan"
                 /\ UNCHANGED exc
  /\ zip_url' = <<>>
  /\ UNCHANGED <<session, inputs, temp_exists, transports, clone_result,
                 probes, analysis, reported>>
  /\ UNCHANGED call

\* a run that goes on to the analysis after a scan that found no file
EmptyScanGoesOn == "analyze"

\* if not file_list: st.error(...); return -- the with block is left
AfterEmptyScan == "unwind"

\* generate_documentation, step 2: scan_files, and the return when it found
\* no file.  Building the repository context (step 3) changes nothing here.
ScanFiles ==
  /\ pc = "scan"
  /\ \E order \in RglobOrders(fs, repo_path) :
       IF ScanRaises(fs, order)
         THEN /\ exc' = TRUE
              /\ pc' = "unwind"
              /\ UNCHANGED <<file_list, reported>>
         ELSE /\ file_list' = scan_files(fs, order)
              /\ IF file_list' = <<>>
                   THEN /\ reported' = "no_files"
                        /\ pc' = AfterEmptyScan
                   ELSE /\ pc' = "analyze"
                        /\ UNCHANGED reported
              /\ UNCHANGED exc
  /\ UNCHANGED <<session, inputs, scratch, acquisition, file_i, analyzed_files,
                 warnings>>
  /\ UNCHANGED call

\* generate_documentation, step 4: one turn of the loop over file_list
AnalyzeNext ==
  /\ pc = "analyze"
  /\ file_i <= Len(file_list)
  /\ LET file_path == file_list[file_i]
         r == analyze_file(EntryAt(fs, file_path), file_path)
     IN /\ analyzed_files' =
             IF ~r.raised /\ r.result.ok THEN Append(analyzed_files, r.result)
             ELSE analyzed_files
        /\ warnings' = IF r.raised THEN warnings + 1 ELSE warnings
  /\ file_i' = file_i + 1
  /\ pc' = IF file_i = Len(file_list) THEN "generate" ELSE "analyze"
  /\ UNCHANGED <<session, inputs, scratch, acquisition, file_list, exc, reported>>
  /\ UNCHANGED call

\* another process removes the file that is analyzed next, or takes the
\* permission to read it
Disturb ==
  /\ pc = "analyze"
  /\ file_i <= Len(file_list)
  /\ \E how \in {"stat", "open"} :
       LET e == EntryAt(fs, file_list[file_i])
       IN /\ e.stat = "ok" /\ e.open = "ok"
          /\ fs' = (fs \ {e}) \cup
                   {IF how = "stat" THEN [e EXCEPT !.stat = "fail", !.open = "fail"]
                    ELSE [e EXCEPT !.open = "fail"]}
  /\ UNCHANGED <<pc, session, inputs, temp_exists, zip_exists, acquisition,
                 analysis, exc, reported>>
  /\ UNCHANGED call

\* generate_documentation, step 5: the generator is called for every record;
\* its failures are caught record by record
GenerateDocs ==
  /\ pc = "generate"
  /\ pc' = "render"
  /\ UNCHANGED <<session, inputs, scratch, acquisition, analysis, exc, reported>>
  /\ UNCHANGED call

\* a run that stores what it has whether generate_readme returned or raised
StoredAlways(outcome, slot, run) == run

\* st.session_state.documentation after step 6: the assignment of line 234
\* is reached only when generate_readme has returned
StoredAfter(outcome, slot, run) == IF outcome = "ok" THEN run ELSE slot

\* generate_documentation, step 6: generate_readme, and the README stored
RenderReadme ==
  /\ pc = "render"
  /\ \E outcome \in {"ok", "raise"} :
       /\ documentation' = StoredAfter(outcome, documentation, runs)
       /\ exc' = (outcome = "raise")
  /\ pc' = "unwind"
  /\ UNCHANGED <<processing, runs, inputs, scratch, acquisition, analysis, reported>>
  /\ UNCHANGED call

\* a context manager that leaves the directory where it is
KeepsDirectory(existing) == existing

\* TemporaryDirectory.__exit__: the directory is removed
TemporaryDirectoryExit(existing) == FALSE

\* the with block is left: TemporaryDirectory removes the scratch directory,
\* and the agents of the run and what they held are gone
Cleanup ==
  /\ pc = "unwind"
  /\ temp_exists' = TemporaryDirectoryExit(temp_exists)
  /\ fs' = {}
  /\ zip_exists' = FALSE
  /\ transports' = <<>>
  /\ clone_result' = "none"
  /\ acq' = "none"
  /\ probes' = <<>>
  /\ zip_url' = <<>>
  /\ repo_path' = <<>>
  /\ file_list' = <<>>
  /\ file_i' = 1
  /\ analyzed_files' = <<>>
  /\ warnings' = 0
  /\ pc' = IF exc THEN "except" ELSE "finally"
  /\ UNCHANGED <<session, inputs, exc, reported>>
  /\ UNCHANGED call

\* except Exception: the error is shown
HandleException ==
  /\ pc = "except"
  /\ reported' = "exception"
  /\ exc' = FALSE
  /\ pc' = "finally"
  /\ UNCHANGED <<session, inputs, scratch, acquisition, analysis>>
  /\ UNCHANGED call

\* a finally clause that leaves the flag as the run set it
ProcessingLeftSet(flag) == flag

\* finally: st.session_state.processing = False
ProcessingAfterRun(flag) == FALSE

\* finally: the processing flag is cleared, generate_documentation returns
Finally ==
  /\ pc = "finally"
  /\ processing' = ProcessingAfterRun(processing)
  /\ repo_url' = <<>>
  /\ remote' = {}
  /\ pc' = "idle"
  /\ UNCHANGED <<documentation, runs, scratch, acquisition, analysis, exc, reported>>
  /\ UNCHANGED call

Next ==
  \/ StartRun
  \/ ConstructAgents
  \/ GitClone
  \/ GetZipUrl
  \/ Download
  \/ Extract
  \/ MoveExtracted
  \/ ScanFiles
  \/ AnalyzeNext
  \/ Disturb
  \/ GenerateDocs
  \/ RenderReadme
  \/ Cleanup
  \/ HandleException
  \/ Finally

Spec == Init /\ [][Next]_vars

(***************************************************************************)
(* scan_files on its own: the state after a clone of a repository, whose   *)
(* files are drawn with every size and readability the scanner tells       *)
(* apart, at a clone path of an ordinary or of a denylisted name.          *)
(***************************************************************************)
ScanPaths ==
  {<< <<"app", ".py">> >>,
   << <<"src", ".py">> >>,
   << <<"README">> >>,
   << <<"notes", ".bin">> >>,
   << <<"build">> >>,
   << <<"src">>, <<"app", ".PY">> >>,
   << <<"node_modules">>, <<"lib", ".js">> >>,
   << <<"src">>, <<"node_modules">>, <<"lib", ".js">> >>}

ScanFilesUniverse ==
  {File(p, 1, <<"txt">>, "ok", "ok") : p \in ScanPaths}
  \cup {File(p, 5 * 1024 * 1024, <<"txt">>, "ok", "ok") : p \in ScanPaths}
  \cup {File(p, 5 * 1024 * 1024 + 1, <<"txt">>, "ok", "ok") : p \in ScanPaths}
  \cup {File(p, 0, <<>>, "fail", "fail") : p \in ScanPaths}
  \cup {File(p, 1, <<"txt">>, "denied", "fail") : p \in ScanPaths}

ScanTrees ==
  {t \in SubsetsUpTo(ScanFilesUniverse, MaxFiles) :
     \A a, b \in t : a.path = b.path => a = b}

ScanUrls ==
  {<<"https://", "github.com", "/", "o", "/", "repo">>,
   <<"https://", "github.com", "/", "o", "/", "dist", ".git", "/">>}

InitScan ==
  /\ pc = "scan"
  /\ processing = TRUE
  /\ documentation = 0
  /\ runs = 1
  /\ repo_url \in ScanUrls
  /\ remote \in ScanTrees
  /\ temp_exists = TRUE
  /\ fs = CloneTree(extract_repo_name(repo_url), remote)
  /\ zip_exists = FALSE
  /\ transports = <<"git">>
  /\ clone_result = "ok"
  /\ acq = "returned"
  /\ probes = <<>>
  /\ zip_url = <<>>
  /\ repo_path = <<extract_repo_name(repo_url)>>
  /\ file_list = <<>>
  /\ file_i = 1
  /\ analyzed_files = <<>>
  /\ warnings = 0
  /\ exc = FALSE
  /\ reported = "none"
  /\ arg = NoCall
  /\ ret = NoCall

NextScan == ScanFiles

SpecScan == InitScan /\ [][NextScan]_vars

(***************************************************************************)
(* analyze_file on its own: the state after the scan of a clone that holds *)
(* one file, drawn with every size and content the analyzer tells apart.   *)
(***************************************************************************)
MaxBody == 2

ByteClasses == {"txt", "ws", "bad"}

Bodies == UNION {[1..n -> ByteClasses] : n \in 0..MaxBody}

AnalyzeSizes == {0, 1, 2, 500 * 1024 - 1, 500 * 1024, 500 * 1024 + 1, 5 * 1024 * 1024}

AnalyzeNames ==
  {<<"app", ".py">>, <<"app", ".dockerfile">>, <<"app", ".makefile">>,
   <<"notes", ".txt">>, <<"Makefile">>}

AnalyzeFilesUniverse ==
  {File(<<name>>, n, b, "ok", "ok") :
     name \in AnalyzeNames, n \in AnalyzeSizes, b \in {x \in Bodies : TRUE}}

InitAnalyze ==
  /\ pc = "analyze"
  /\ processing = TRUE
  /\ documentation = 0
  /\ runs = 1
  /\ repo_url = <<"https://", "github.com", "/", "o", "/", "repo">>
  /\ remote \in {{f} : f \in {x \in AnalyzeFilesUniverse :
                               /\ Len(x.body) <= x.size
                               /\ x.size = 0 <=> x.body = <<>>}}
  /\ temp_exists = TRUE
  /\ fs = CloneTree(extract_repo_name(repo_url), remote)
  /\ zip_exists = FALSE
  /\ transports = <<"git">>
  /\ clone_result = "ok"
  /\ acq = "returned"
  /\ probes = <<>>
  /\ zip_url = <<>>
  /\ repo_path = <<extract_repo_name(repo_url)>>
  /\ file_list \in {scan_files(fs, order) : order \in RglobOrders(fs, repo_path)}
  /\ file_i = 1
  /\ analyzed_files = <<>>
  /\ warnings = 0
  /\ exc = FALSE
  /\ reported = "none"
  /\ arg = NoCall
  /\ ret = NoCall

NextAnalyze ==
  \/ AnalyzeNext
  \/ Disturb

SpecAnalyze == InitAnalyze /\ [][NextAnalyze]_vars

(***************************************************************************)
(* Properties.                                                             *)
(***************************************************************************)
CloneFailures == {"exit_nonzero", "timeout", "no_git"}

\* the target path of both transports, relative to the scratch directory
TargetPath == <<extract_repo_name(repo_url)>>

\* the entries below the directory at rel, with their paths relative to it
TreeAt(fsys, rel) == {Reroot(e, rel, <<>>) : e \in EntriesBelow(fsys, rel)}

\* C1: the clone is tried first; when it succeeds its path is returned and
\* the archive transport is not invoked; when it fails, for whatever reason,
\* the archive transport is invoked once, after it, and acquisition fails
\* only when both have failed.
C1_CloneThenArchive ==
  /\ transports \in {<<>>, <<"git">>, <<"git", "zip">>}
  /\ clone_result = "ok" =>
       /\ transports = <<"git">>
       /\ acq = "returned"
       /\ repo_path = TargetPath
  /\ clone_result \in CloneFailures => transports = <<"git", "zip">>
  /\ acq = "raised" =>
       /\ clone_result \in CloneFailures
       /\ transports = <<"git", "zip">>
  /\ acq = "returned" => repo_path = TargetPath

\* C1, witness: the clone timed out and the archive transport delivered
C1_Witness ==
  /\ clone_result = "timeout"
  /\ acq = "returned"
  /\ transports = <<"git", "zip">>

\* C2: branches are probed in the order main, master, dev, develop; the
\* first probe that answers 200 selects its branch and ends the probing; a
\* probe that raises or answers another status is a failure; after four
\* failures the archive URL of main is selected.
C2_ProbeOrder ==
  /\ Len(probes) <= 4
  /\ \A i \in 1..Len(probes) :
       probes[i].branch = <<"main", "master", "dev", "develop">>[i]
  /\ \A i \in 1..(Len(probes) - 1) : probes[i].status # "200"
  /\ pc = "zip_url" => \A i \in 1..Len(probes) : probes[i].status # "200"
  /\ pc = "download" =>
       IF probes # <<>> /\ Last(probes).status = "200"
         THEN zip_url = CleanUrl(repo_url) \o
                        <<"/archive/refs/heads/", Last(probes).branch, ".zip">>
         ELSE /\ Len(probes) = 4
              /\ zip_url = CleanUrl(repo_url) \o
                           <<"/archive/refs/heads/", "main", ".zip">>

\* C2, witness: main answered 404, the probe of master raised, dev answered
\* 200 and the archive of dev is selected
C2_Witness ==
  /\ pc = "download"
  /\ Len(probes) = 3
  /\ probes[1].status = "404"
  /\ probes[2].status = "raise"
  /\ BranchOf(zip_url) = "dev"

\* C3: when clone_repository returns a path, the tree there is the complete
\* content one transport delivered (the clone with git's files, or the
\* files of the archive directly below the target); when it raises, the
\* target path does not exist.
C3_NoPartialState ==
  /\ (pc = "scan" /\ acq = "returned") =>
       IF transports = <<"git">>
         THEN TreeAt(fs, repo_path) =
                TreeAt(CloneTree(extract_repo_name(repo_url), remote), TargetPath)
         ELSE TreeAt(fs, repo_path) = remote
  /\ (pc = "unwind" /\ acq = "raised") => ~Exists(fs, TargetPath)

\* C4: when _download_zip has ended, by returning or by raising, the archive
\* file it wrote does not exist.
C4_ArchiveFileDeleted ==
  (acq \in {"returned", "raised"} /\ "zip" \in Range(transports)) => ~zip_exists

\* the parts of an absolute path below the scanned root
PartsBelowRoot(abs) ==
  SubSeq(abs, Len(TempDir) + Len(repo_path) + 1, Len(abs))

\* C5: every path scan_files returns is a file whose size can be read and is
\* at most 5 MB and that has no denylisted segment below the root, at any
\* depth; a tree whose files all lie below denylisted directories scans to
\* the empty list.
C5_ScanExcludes ==
  pc # "scan" =>
    /\ \A i \in 1..Len(file_list) :
         /\ IsEntry(fs, SubSeq(file_list[i], Len(TempDir) + 1, Len(file_list[i])))
         /\ EntryAt(fs, file_list[i]).kind = "file"
         /\ EntryAt(fs, file_list[i]).stat = "ok"
         /\ EntryAt(fs, file_list[i]).size <= 5 * 1024 * 1024
         /\ \A k \in 1..Len(PartsBelowRoot(file_list[i])) :
              PartsBelowRoot(file_list[i])[k] \notin skip_dirs
    /\ (\A e \in EntriesBelow(fs, repo_path) :
          e.kind = "file" =>
            \E k \in 1..(Len(PartsBelowRoot(AbsPath(e.path))) - 1) :
              PartsBelowRoot(AbsPath(e.path))[k] \in skip_dirs)
       => file_list = <<>>

\* C5, witness: a tree that holds a file of exactly 5 MB and a file two
\* levels down in node_modules; the scan returned the first alone
C5_Witness ==
  /\ pc = "analyze"
  /\ Len(file_list) = 1
  /\ EntryAt(fs, file_list[1]).size = 5 * 1024 * 1024
  /\ \E e \in EntriesBelow(fs, repo_path) :
       /\ e.kind = "file"
       /\ e.stat = "ok"
       /\ e.size = 1
       /\ Len(e.path) = 4
       /\ e.path[3] = <<"node_modules">>

\* the scanner's conditions on a file, the denylist applied to the path
\* below the root
Eligible(e) ==
  /\ e.kind = "file"
  /\ e.stat = "ok"
  /\ e.size <= 5 * 1024 * 1024
  /\ \A k \in 1..Len(PartsBelowRoot(AbsPath(e.path))) :
       PartsBelowRoot(AbsPath(e.path))[k] \notin skip_dirs
  /\ \/ Lower(Suffix(Last(e.path))) \in supported_extensions
     \/ Suffix(Last(e.path)) = <<>> /\ Lower(Last(e.path)) \in important_names

\* the scan of the run has just returned
ScanReturned ==
  /\ acq = "returned"
  /\ file_i = 1
  /\ \/ pc = "analyze"
     \/ pc = "unwind" /\ reported = "no_files"

\* C6: scan_files returns every file below the root that has no denylisted
\* segment in its path relative to the root, a readable size of at most
\* 5 MB, and a supported extension or conventional name, wherever the root
\* is and whatever it is called.
C6_ScanIncludesAll ==
  ScanReturned =>
    \A e \in EntriesBelow(fs, repo_path) :
      Eligible(e) => AbsPath(e.path) \in Range(file_list)

\* no file of the scan output has been removed or made unreadable since
Undisturbed ==
  \A i \in 1..Len(file_list) :
    EntryAt(fs, file_list[i]).stat = "ok" /\ EntryAt(fs, file_list[i]).open = "ok"

\* the index of a path in the scan output
PosInList(path) == CHOOSE i \in 1..Len(file_list) : file_list[i] = path

\* C7: the scan output is in strictly ascending path order (so without
\* duplicates), every order in which the file system may list the unchanged
\* tree gives the same output, and the records are collected in the order
\* of the scan output, at most one for a file.
C7_SortedOutput ==
  /\ \A i \in 1..(Len(file_list) - 1) : PathLess(file_list[i], file_list[i + 1])
  /\ (pc = "analyze" /\ file_i = 1 /\ Undisturbed) =>
       \A order \in RglobOrders(fs, repo_path) : scan_files(fs, order) = file_list
  /\ \A j \in 1..Len(analyzed_files) :
       /\ analyzed_files[j].file_path \in Range(SubSeq(file_list, 1, file_i - 1))
       /\ \A k \in 1..Len(analyzed_files) :
            j < k => PosInList(analyzed_files[j].file_path)
                       < PosInList(analyzed_files[k].file_path)

\* C7, witness: two files were scanned, app.py before src/app.PY, and both
\* records are collected, in that order
C7_Witness ==
  /\ pc = "generate"
  /\ Len(file_list) = 2
  /\ Last(file_list[1]) = <<"app", ".py">>
  /\ Last(file_list[2]) = <<"app", ".PY">>
  /\ Len(analyzed_files) = 2
  /\ analyzed_files[1].file_path = file_list[1]

\* C8: scan_files never fails: it returns, an entry whose size cannot be read
\* (stat() raises an OS or permission error) is left out of the output, and
\* every other entry that passes the scanner's tests is in it (for a root
\* whose own name is not on the denylist).
C8_ScanSkipsUnreadable ==
  pc # "scan" =>
    /\ ~exc
    /\ \A e \in EntriesBelow(fs, repo_path) :
         e.stat # "ok" => AbsPath(e.path) \notin Range(file_list)
    /\ \A e \in EntriesBelow(fs, repo_path) :
         (Eligible(e) /\ \A k \in 1..Len(repo_path) : repo_path[k] \notin skip_dirs)
           => AbsPath(e.path) \in Range(file_list)

\* C9: analyze_file gives a record exactly when the file can be read, its
\* size is at most 500*1024 bytes and the text decoded from it holds a
\* character that is not whitespace.
C9_RecordIff ==
  (pc = "generate" /\ Len(file_list) = 1) =>
    LET e == EntryAt(fs, file_list[1])
    IN (Len(analyzed_files) = 1) <=>
         /\ e.stat = "ok"
         /\ e.open = "ok"
         /\ e.size <= 500 * 1024
         /\ \E i \in 1..Len(e.body) : e.body[i] = "txt"

\* C9, witness: a file of exactly 500*1024 bytes that holds text was analyzed
\* and gave a record
C9_Witness ==
  /\ pc = "generate"
  /\ Len(file_list) = 1
  /\ EntryAt(fs, file_list[1]).size = 500 * 1024
  /\ Len(analyzed_files) = 1
  /\ analyzed_files[1].content = <<"txt", "ws">>

\* what analyze_file is to give for an entry: a record for a readable file
\* within the size limit that holds text
Analyzable(e) ==
  /\ e.stat = "ok"
  /\ e.open = "ok"
  /\ e.size <= 500 * 1024
  /\ \E i \in 1..Len(e.body) : e.body[i] = "txt"

\* C10: no exception leaves analyze_file, whatever the file; the loop of the
\* run reaches every file of the scan output, and the files after one that
\* could not be analyzed still give their records.
C10_AnalyzerNeverRaises ==
  /\ warnings = 0
  /\ \A j \in 1..Len(analyzed_files) : analyzed_files[j].ok
  /\ pc \in {"generate", "render"} =>
       /\ file_i = Len(file_list) + 1
       /\ \A i \in 1..Len(file_list) :
            Analyzable(EntryAt(fs, file_list[i])) <=>
              \E j \in 1..Len(analyzed_files) :
                analyzed_files[j].file_path = file_list[i]

\* C10, witness: the first of two scanned files vanished before it was
\* analyzed, and the second gave the only record
C10_Witness ==
  /\ pc = "generate"
  /\ Len(file_list) = 2
  /\ EntryAt(fs, file_list[1]).stat = "fail"
  /\ Len(analyzed_files) = 1
  /\ analyzed_files[1].file_path = file_list[2]

\* the codec decodes every byte of the body: the UTF-8 codecs need a body
\* free of invalid sequences, the single-byte codecs take every byte
FullyDecodes(encoding, body) ==
  encoding \in {"utf-8", "utf-8-sig"} => \A i \in 1..Len(body) : body[i] # "bad"

\* the text of a body that the codec decodes in full, nothing dropped
StrictDecode(encoding, body) ==
  [i \in 1..Len(body) |-> CharOf(encoding, body[i])]

\* C11: the content of a record is the complete decoding of all the bytes of
\* the file under one of the supported encodings, no byte dropped or
\* substituted, and a file that no encoding decodes in full has no record.
C11_ContentIsFullFile ==
  (pc = "generate" /\ Len(file_list) = 1) =>
    LET e == EntryAt(fs, file_list[1])
        full == {k \in 1..Len(encoding_attempts) :
                   FullyDecodes(encoding_attempts[k], e.body)}
    IN /\ Len(analyzed_files) = 1 =>
            \E k \in full :
              analyzed_files[1].content = StrictDecode(encoding_attempts[k], e.body)
       /\ full = {} => Len(analyzed_files) = 0

(***************************************************************************)
(* _read_file_content on its own: a text of printable characters is        *)
(* written to a file of the scratch directory as UTF-8 and read back.  A   *)
(* text is a sequence of characters: "txt" printable ASCII other than the  *)
(* space, "sp" the space, "uni" a printable character above U+007F.        *)
(***************************************************************************)
MaxText == 4

PrintableChars == {"txt", "sp", "uni"}

Texts == UNION {[1..n -> PrintableChars] : n \in 0..MaxText}

\* text.encode('utf-8')
EncodeUtf8(text) ==
  [i \in 1..Len(text) |->
     IF text[i] = "uni" THEN "u8" ELSE text[i]]

\* the state of a session in which one function is called on its own
Standalone ==
  /\ pc = "call"
  /\ processing = FALSE
  /\ documentation = 0
  /\ runs = 0
  /\ repo_url = <<>>
  /\ remote = {}
  /\ temp_exists = TRUE
  /\ fs = {}
  /\ zip_exists = FALSE
  /\ transports = <<>>
  /\ clone_result = "none"
  /\ acq = "none"
  /\ probes = <<>>
  /\ zip_url = <<>>
  /\ repo_path = <<>>
  /\ file_list = <<>>
  /\ file_i = 1
  /\ analyzed_files = <<>>
  /\ warnings = 0
  /\ exc = FALSE
  /\ reported = "none"
  /\ ret = NoCall

run == <<pc, session, inputs, acquisition, analysis, exc, reported>>

TextFile == << <<"notes", ".py">> >>

InitDecode ==
  /\ Standalone
  /\ \E t \in Texts : arg = [fn |-> "decode", text |-> t]

\* the text is written to the file, encoded as UTF-8
WriteText ==
  /\ arg.fn = "decode"
  /\ fs = {}
  /\ fs' = {File(TextFile, Len(arg.text), EncodeUtf8(arg.text), "ok", "ok")}
  /\ UNCHANGED <<run, temp_exists, zip_exists, call>>

\* _read_file_content(file_path)
ReadFileContent ==
  /\ arg.fn = "decode"
  /\ fs # {}
  /\ ret = NoCall
  /\ ret' = [fn |-> "decode",
             ok |-> read_file_content(EntryAt(fs, AbsPath(TextFile))).ok,
             content |-> read_file_content(EntryAt(fs, AbsPath(TextFile))).content]
  /\ UNCHANGED <<run, scratch, arg>>

NextDecode == WriteText \/ ReadFileContent

SpecDecode == InitDecode /\ [][NextDecode]_vars

\* C12, as stated: for every text of printable characters, reading back the
\* UTF-8 encoding of the text with _read_file_content returns that text.
C12_RoundTrip ==
  ret.fn = "decode" => (ret.ok /\ ret.content = arg.text)

\* C12: for every text of printable characters that holds a character other
\* than the space, reading back the UTF-8 encoding of the text with
\* _read_file_content returns exactly that text; for the empty text and for a
\* text of spaces only it returns none.
C12_RoundTripNonBlank ==
  ret.fn = "decode" =>
    IF \E i \in 1..Len(arg.text) : arg.text[i] # "sp"
      THEN ret.ok /\ ret.content = arg.text
      ELSE ~ret.ok

\* C12, witness: a text with spaces, ASCII and a character above U+007F came
\* back as it was written
C12_Witness ==
  /\ ret.fn = "decode"
  /\ arg.text = <<"sp", "uni", "txt", "sp">>
  /\ ret.ok
  /\ ret.content = <<"sp", "uni", "txt", "sp">>

\* C13: the relative_path of every record is the path of its file relative to
\* the repository root, as get_relative_path gives it, for a file directly in
\* the root and for a file at any depth below it.
C13_RelativePath ==
  \A j \in 1..Len(analyzed_files) :
    analyzed_files[j].relative_path = PartsBelowRoot(analyzed_files[j].file_path)

(***************************************************************************)
(* _extract_metadata on its own.  A content is the sequence of its lines   *)
(* (content.splitlines(): the empty text has no line); the lines are drawn *)
(* from a few texts that the tables of the extractor tell apart.           *)
(***************************************************************************)
MaxLines == 3

MetaSuffixes == {<<".py">>, <<".js">>, <<".md">>}

MetaLines == {"", "# c", "import os", "def f():", "function g() {", "x = 1"}

MetaContents == UNION {[1..n -> MetaLines] : n \in 0..MaxLines}

\* the prefixes of the tables that line.strip() starts with
StartsWith(line) ==
  CASE line = "# c" -> {"#"}
    [] line = "import os" -> {"import "}
    [] line = "def f():" -> {"def "}
    [] line = "function g() {" -> {"function "}
    [] OTHER -> {}

RECURSIVE Strip(_)
\* line.strip(), the blanks of a line being spaces
Strip(line) ==
  IF Len(line) > 0 /\ SubSeq(line, 1, 1) = " "
    THEN Strip(SubSeq(line, 2, Len(line)))
  ELSE IF Len(line) > 0 /\ SubSeq(line, Len(line), Len(line)) = " "
    THEN Strip(SubSeq(line, 1, Len(line) - 1))
  ELSE line

\* keyword in stripped
Contains(stripped, keyword) ==
  \E i \in 1..(Len(stripped) - Len(keyword) + 1) :
    SubSeq(stripped, i, i + Len(keyword) - 1) = keyword

\* s.split(sep)[0], sep one character
SplitHead(s, sep) ==
  IF \E i \in 1..Len(s) : SubSeq(s, i, i) = sep
    THEN SubSeq(s, 1,
                (CHOOSE i \in 1..Len(s) :
                   /\ SubSeq(s, i, i) = sep
                   /\ \A j \in 1..(i - 1) : SubSeq(s, j, j) # sep) - 1)
    ELSE s

\* stripped.split('{')[0].split('(')[0]
CleanLine(stripped) == SplitHead(SplitHead(stripped, "{"), "(")

\* len(clean_line) < 100
ShortEnough(clean_line) == Len(clean_line) < 100

comment_prefixes(suffix) ==
  CASE suffix = <<".py">> -> {"#"}
    [] suffix = <<".js">> -> {"//", "/*"}
    [] OTHER -> {}

import_keywords(suffix) ==
  CASE suffix = <<".py">> -> {"import ", "from "}
    [] suffix = <<".js">> -> {"import ", "require("}
    [] OTHER -> {}

definition_keywords(suffix) ==
  CASE suffix = <<".py">> -> {"def ", "class ", "async def "}
    [] suffix = <<".js">> -> {"function ", "class ", "const ", "let ", "var "}
    [] OTHER -> {}

\* s[:n]
Take(s, n) == SubSeq(s, 1, IF Len(s) < n THEN Len(s) ELSE n)

RECURSIVE CountLines(_, _)
\* the number of lines of the sequence that start with one of the prefixes
CountLines(lines, prefixes) ==
  IF lines = <<>> THEN 0
  ELSE (IF StartsWith(Head(lines)) \cap prefixes # {} THEN 1 ELSE 0)
       + CountLines(Tail(lines), prefixes)

\* _count_comment_lines(lines, suffix)
count_comment_lines(lines, suffix) ==
  IF comment_prefixes(Lower(suffix)) = {} THEN 0
  ELSE CountLines(lines, comment_prefixes(Lower(suffix)))

RECURSIVE ImportsOf(_, _)
ImportsOf(lines, keywords) ==
  IF lines = <<>> THEN <<>>
  ELSE (IF StartsWith(Head(lines)) \cap keywords # {}
          THEN <<Head(lines)>> ELSE <<>>)
       \o ImportsOf(Tail(lines), keywords)

\* _extract_imports(lines, suffix)
extract_imports(lines, suffix) ==
  Take(ImportsOf(lines, import_keywords(Lower(suffix))), 10)

RECURSIVE DefinitionsOf(_, _)
DefinitionsOf(lines, keywords) ==
  IF lines = <<>> THEN <<>>
  ELSE (IF /\ \E keyword \in keywords : Contains(Strip(Head(lines)), keyword)
             /\ ShortEnough(CleanLine(Strip(Head(lines))))
          THEN <<CleanLine(Strip(Head(lines)))>> ELSE <<>>)
       \o DefinitionsOf(Tail(lines), keywords)

\* _extract_definitions(lines, suffix)
extract_definitions(lines, suffix) ==
  Take(DefinitionsOf(lines, definition_keywords(Lower(suffix))), 20)

RECURSIVE BlankLines(_)
\* sum(1 for line in lines if not line.strip())
BlankLines(lines) ==
  IF lines = <<>> THEN 0
  ELSE (IF Head(lines) = "" THEN 1 ELSE 0) + BlankLines(Tail(lines))

\* _extract_metadata(file_path, content): the dictionary it returns, a
\* function from the keys it holds
extract_metadata(suffix, lines) ==
  IF lines = <<>> THEN <<>>
  ELSE [first_lines |-> Take(lines, 5),
        blank_lines |-> BlankLines(lines),
        comment_lines |-> count_comment_lines(lines, suffix),
        imports |-> extract_imports(Take(lines, 50), suffix),
        definitions |-> extract_definitions(lines, suffix)]

InitMetadata ==
  /\ Standalone
  /\ \E s \in MetaSuffixes, c \in MetaContents :
       arg = [fn |-> "metadata", suffix |-> s, lines |-> c]

ExtractMetadata ==
  /\ arg.fn = "metadata"
  /\ ret = NoCall
  /\ ret' = [fn |-> "metadata",
             metadata |-> extract_metadata(arg.suffix, arg.lines)]
  /\ UNCHANGED <<run, scratch, arg>>

NextMetadata == ExtractMetadata

SpecMetadata == InitMetadata /\ [][NextMetadata]_vars

\* C14: _extract_metadata returns, for every text (the empty text too) and
\* every extension, a record with all of first_lines, blank_lines,
\* comment_lines, imports and definitions; when no import or definition
\* pattern is recognised imports and definitions are empty sequences.
C14_MetadataComplete ==
  ret.fn = "metadata" =>
    /\ DOMAIN ret.metadata =
         {"first_lines", "blank_lines", "comment_lines", "imports", "definitions"}
    /\ (\A i \in 1..Len(arg.lines) : StartsWith(arg.lines[i]) = {})
         => (ret.metadata.imports = <<>> /\ ret.metadata.definitions = <<>>)

(***************************************************************************)
(* ReadmeGenerator._analyze_project_structure and _determine_project_type  *)
(* on their own.  The records are those of files of a few names, whose     *)
(* content is a sequence of words; a word of the content is written as the *)
(* file has it, and content.lower() lowers every word.                     *)
(***************************************************************************)
MaxRecords == 3

ProfileNames ==
  {<<"index", ".html">>, <<"style", ".css">>, <<"app", ".py">>,
   <<"util", ".py">>, <<"app", ".js">>, <<"main", ".swift">>,
   <<"notes", ".md">>}

ProfileContents ==
  {<<"x">>, <<"MySQL">>, <<"Firebase", "x">>, <<"mongodb">>, <<"Flutter">>,
   <<"React Native">>}

\* str.lower() on a word of a content
LowerWord(w) ==
  CASE w = "MySQL" -> "mysql"
    [] w = "Firebase" -> "firebase"
    [] w = "Flutter" -> "flutter"
    [] w = "React Native" -> "react native"
    [] OTHER -> w

\* the keywords of _analyze_project_structure that are substrings of a word
KeywordsIn(w) ==
  CASE w = "mysql" -> {"sql"}
    [] w = "firebase" -> {"firebase"}
    [] w = "mongodb" -> {"mongodb"}
    [] w = "flutter" -> {"flutter"}
    [] w = "react native" -> {"react native"}
    [] OTHER -> {}

\* keyword in content, the case of the content as it is
MentionsCaseSensitive(content, keyword) ==
  \E i \in 1..Len(content) : keyword \in KeywordsIn(content[i])

\* keyword in content.lower()
Mentions(content, keyword) ==
  \E i \in 1..Len(content) : keyword \in KeywordsIn(LowerWord(content[i]))

\* the fields of a record that _analyze_project_structure reads
ProfileRecord(name, content) ==
  [relative_path |-> <<name>>,
   language |-> determine_language(name),
   content |-> content]

ProfileRecords ==
  {ProfileRecord(n, c) : n \in ProfileNames, c \in ProfileContents}

ProfileFiles ==
  {s \in UNION {[1..n -> ProfileRecords] : n \in 0..MaxRecords} :
     \A i, j \in 1..Len(s) : s[i].relative_path = s[j].relative_path => i = j}

MainLanguages == {"python", "javascript", "markdown", "unknown"}

\* file_types[language] += 1, a new key going to the end of the dictionary
CountLanguage(file_types, language) ==
  IF \E k \in 1..Len(file_types) : file_types[k].language = language
    THEN [k \in 1..Len(file_types) |->
            IF file_types[k].language = language
              THEN [file_types[k] EXCEPT !.count = @ + 1]
              ELSE file_types[k]]
    ELSE Append(file_types, [language |-> language, count |-> 1])

RECURSIVE FileTypes(_, _)
\* file_types after the loop over the records
FileTypes(files, file_types) ==
  IF files = <<>> THEN file_types
  ELSE FileTypes(Tail(files), CountLanguage(file_types, Head(files).language))

\* the last key of the greatest count
MaxKeyLast(file_types) ==
  file_types[CHOOSE k \in 1..Len(file_types) :
               /\ \A j \in 1..Len(file_types) : file_types[j].count <= file_types[k].count
               /\ \A j \in (k + 1)..Len(file_types) : file_types[j].count < file_types[k].count].language

\* max(file_types.keys(), key=...): the first key of the greatest count
MaxKey(file_types) ==
  file_types[CHOOSE k \in 1..Len(file_types) :
               /\ \A j \in 1..Len(file_types) : file_types[j].count <= file_types[k].count
               /\ \A j \in 1..(k - 1) : file_types[j].count < file_types[k].count].language

\* a decision that asks for a frontend before it asks for both
ProjectTypeFrontendFirst(has_frontend, has_backend, has_mobile, main_language) ==
  IF has_mobile THEN "Mobile Application"
  ELSE IF has_frontend THEN "Frontend Web Application"
  ELSE IF has_frontend /\ has_backend THEN "Full-Stack Web Application"
  ELSE IF has_backend THEN "Backend API/Service"
  ELSE IF main_language = "python" THEN "Python Application"
  ELSE IF main_language = "javascript" THEN "JavaScript Application"
  ELSE "Software Project"

\* a decision that asks for the main language before it asks for a
\* frontend or a backend
ProjectTypeLanguageFirst(has_frontend, has_backend, has_mobile, main_language) ==
  IF has_mobile THEN "Mobile Application"
  ELSE IF main_language = "python" THEN "Python Application"
  ELSE IF main_language = "javascript" THEN "JavaScript Application"
  ELSE IF has_frontend /\ has_backend THEN "Full-Stack Web Application"
  ELSE IF has_frontend THEN "Frontend Web Application"
  ELSE IF has_backend THEN "Backend API/Service"
  ELSE "Software Project"

\* _determine_project_type(has_frontend, has_backend, has_mobile, main_language)
determine_project_type(has_frontend, has_backend, has_mobile, main_language) ==
  IF has_mobile THEN "Mobile Application"
  ELSE IF has_frontend /\ has_backend THEN "Full-Stack Web Application"
  ELSE IF has_frontend THEN "Frontend Web Application"
  ELSE IF has_backend THEN "Backend API/Service"
  ELSE IF main_language = "python" THEN "Python Application"
  ELSE IF main_language = "javascript" THEN "JavaScript Application"
  ELSE "Software Project"

\* _analyze_project_structure(analyzed_files)
analyze_project_structure(files) ==
  LET has_frontend ==
        \E i \in 1..Len(files) :
          files[i].language \in
            {"html", "css", "javascript", "typescript", "jsx", "tsx"}
      has_backend ==
        \E i \in 1..Len(files) :
          files[i].language \in
            {"python", "java", "php", "ruby", "go", "rust", "csharp"}
      has_database ==
        \E i \in 1..Len(files) :
          \/ Mentions(files[i].content, "firebase")
          \/ Mentions(files[i].content, "mongodb")
          \/ Mentions(files[i].content, "sql")
      has_mobile ==
        \E i \in 1..Len(files) :
          \/ Mentions(files[i].content, "react native")
          \/ Mentions(files[i].content, "flutter")
          \/ files[i].language = "swift"
      file_types == FileTypes(files, <<>>)
      main_language ==
        IF file_types # <<>> THEN MaxKey(file_types) ELSE "unknown"
  IN [file_types |-> file_types,
      main_language |-> main_language,
      project_type |->
        determine_project_type(has_frontend, has_backend, has_mobile, main_language),
      has_frontend |-> has_frontend,
      has_backend |-> has_backend,
      has_database |-> has_database,
      has_mobile |-> has_mobile,
      total_files |-> Len(files)]

InitProfile ==
  /\ Standalone
  /\ \/ \E files \in ProfileFiles : arg = [fn |-> "structure", files |-> files]
     \/ \E fe, be, mo \in BOOLEAN, lang \in MainLanguages :
          arg = [fn |-> "project_type", has_frontend |-> fe, has_backend |-> be,
                 has_mobile |-> mo, main_language |-> lang]

AnalyzeProjectStructure ==
  /\ arg.fn = "structure"
  /\ ret = NoCall
  /\ ret' = [fn |-> "structure", info |-> analyze_project_structure(arg.files)]
  /\ UNCHANGED <<run, scratch, arg>>

DetermineProjectType ==
  /\ arg.fn = "project_type"
  /\ ret = NoCall
  /\ ret' = [fn |-> "project_type",
             project_type |->
               determine_project_type(arg.has_frontend, arg.has_backend,
                                      arg.has_mobile, arg.main_language)]
  /\ UNCHANGED <<run, scratch, arg>>

NextProfile == AnalyzeProjectStructure \/ DetermineProjectType

SpecProfile == InitProfile /\ [][NextProfile]_vars

\* the decision table of the archetype: the rows in their order, each a
\* condition and the archetype it gives
ArchetypeTable(has_frontend, has_backend, has_mobile, main_language) ==
  << <<has_mobile, "Mobile Application">>,
     <<has_frontend /\ has_backend, "Full-Stack Web Application">>,
     <<has_frontend, "Frontend Web Application">>,
     <<has_backend, "Backend API/Service">>,
     <<main_language = "python", "Python Application">>,
     <<main_language = "javascript", "JavaScript Application">>,
     <<TRUE, "Software Project">> >>

\* the archetype of the first row of the table whose condition holds
FirstMatch(table) ==
  table[CHOOSE k \in 1..Len(table) :
          table[k][1] /\ \A j \in 1..(k - 1) : ~table[j][1]][2]

\* the records of index.html, style.css and app.py, app.py mentioning sql
ExampleFiles ==
  <<ProfileRecord(<<"index", ".html">>, <<"x">>),
    ProfileRecord(<<"style", ".css">>, <<"x">>),
    ProfileRecord(<<"app", ".py">>, <<"MySQL">>)>>

\* C15: the archetype is that of the first row of the decision table that
\* matches, in the order mobile, frontend and backend, frontend, backend,
\* python, javascript, otherwise Software Project; the records of index.html,
\* style.css and app.py mentioning sql give a frontend, a backend, a database
\* and the archetype Full-Stack Web Application.
C15_ArchetypeTable ==
  /\ ret.fn = "project_type" =>
       ret.project_type =
         FirstMatch(ArchetypeTable(arg.has_frontend, arg.has_backend,
                                   arg.has_mobile, arg.main_language))
  /\ ret.fn = "structure" =>
       ret.info.project_type =
         FirstMatch(ArchetypeTable(ret.info.has_frontend, ret.info.has_backend,
                                   ret.info.has_mobile, ret.info.main_language))
  /\ (ret.fn = "structure" /\ arg.files = ExampleFiles) =>
       /\ ret.info.has_frontend
       /\ ret.info.has_backend
       /\ ret.info.has_database
       /\ ~ret.info.has_mobile
       /\ ret.info.project_type = "Full-Stack Web Application"

\* C15, witness: the structure of the example records has been analyzed
C15_Witness ==
  /\ ret.fn = "structure"
  /\ arg.files = ExampleFiles
  /\ ret.info.project_type = "Full-Stack Web Application"

\* some word of the content, lowered, holds one of the keywords
ContentHolds(content, keywords) ==
  \E j \in 1..Len(content) : KeywordsIn(LowerWord(content[j])) \cap keywords # {}

\* C20: for every sequence of records each flag of the profile is true
\* exactly when a record triggers it: has_frontend by a language among html,
\* css, javascript, typescript, jsx, tsx; has_backend by a language among
\* python, java, php, ruby, go, rust, csharp; has_database by a content that
\* holds firebase, mongodb or sql in any case; has_mobile by a content that
\* holds 'react native' or 'flutter' or by the language swift.  With no
\* record the four flags are false.
C20_ProfileFlags ==
  ret.fn = "structure" =>
    LET files == arg.files
        info == ret.info
    IN /\ info.has_frontend <=>
            \E i \in 1..Len(files) :
              files[i].language \in
                {"html", "css", "javascript", "typescript", "jsx", "tsx"}
       /\ info.has_backend <=>
            \E i \in 1..Len(files) :
              files[i].language \in
                {"python", "java", "php", "ruby", "go", "rust", "csharp"}
       /\ info.has_database <=>
            \E i \in 1..Len(files) :
              ContentHolds(files[i].content, {"firebase", "mongodb", "sql"})
       /\ info.has_mobile <=>
            \E i \in 1..Len(files) :
              \/ ContentHolds(files[i].content, {"react native", "flutter"})
              \/ files[i].language = "swift"
       /\ files = <<>> =>
            /\ ~info.has_frontend
            /\ ~info.has_backend
            /\ ~info.has_database
            /\ ~info.has_mobile

\* C20, witness: one record, of a markdown file that mentions MySQL, sets the
\* database flag and no other
C20_Witness ==
  /\ ret.fn = "structure"
  /\ arg.files = <<ProfileRecord(<<"notes", ".md">>, <<"MySQL">>)>>
  /\ ret.info.has_database
  /\ ~ret.info.has_frontend
  /\ ~ret.info.has_backend
  /\ ~ret.info.has_mobile

\* C16: a run whose scan finds no file is fatal: the error is reported, no
\* file is analyzed, nothing is generated or rendered, and the run stores no
\* documentation.
C16_ZeroFilesFatal ==
  /\ (pc = "unwind" /\ acq = "returned" /\ file_list = <<>> /\ ~exc)
       => reported = "no_files"
  /\ reported = "no_files" =>
       /\ pc \in {"unwind", "finally", "idle"}
       /\ file_list = <<>>
       /\ file_i = 1
       /\ analyzed_files = <<>>
       /\ documentation # runs

\* C16, witness: a run that cloned a repository without a supported file has
\* ended, the error reported and nothing stored
C16_Witness ==
  /\ pc = "idle"
  /\ runs = 1
  /\ reported = "no_files"
  /\ documentation = 0
  /\ ~processing

\* C17: a run whose scan found files and whose analysis gave no record is
\* fatal: it stores no README and it ends with an error, not as a success.
C17_ZeroRecordsFatal ==
  (pc = "unwind" /\ file_list # <<>> /\ analyzed_files = <<>>) =>
    /\ documentation # runs
    /\ exc \/ reported # "none"

(***************************************************************************)
(* A session that holds the README of an earlier run when the runs of the  *)
(* model start.                                                            *)
(***************************************************************************)
InitSession ==
  /\ pc = "idle"
  /\ processing = FALSE
  /\ documentation = Earlier
  /\ runs = 0
  /\ repo_url = <<>>
  /\ remote = {}
  /\ temp_exists = FALSE
  /\ fs = {}
  /\ zip_exists = FALSE
  /\ transports = <<>>
  /\ clone_result = "none"
  /\ acq = "none"
  /\ probes = <<>>
  /\ zip_url = <<>>
  /\ repo_path = <<>>
  /\ file_list = <<>>
  /\ file_i = 1
  /\ analyzed_files = <<>>
  /\ warnings = 0
  /\ exc = FALSE
  /\ reported = "none"
  /\ arg = NoCall
  /\ ret = NoCall

SpecSession == InitSession /\ [][Next]_vars

\* the positions of a run inside the with block
InsideWith ==
  {"agents", "clone", "zip_url", "download", "extract", "move", "scan",
   "analyze", "generate", "render", "unwind"}

\* C18: the scratch directory of a run exists from the start of the run, and
\* it has been removed, with all it held, when the run ends: after the
\* success, after the return on an empty scan, and after an exception of
\* any stage.
C18_ScratchRemoved ==
  /\ pc \in InsideWith => temp_exists
  /\ pc \notin InsideWith =>
       /\ ~temp_exists
       /\ fs = {}
       /\ ~zip_exists

\* C18, witness: a run that cloned a repository holding files, none of them
\* supported, has returned after the scan, and nothing of the scratch
\* directory is left
C18_Witness ==
  /\ pc = "finally"
  /\ runs = 1
  /\ reported = "no_files"
  /\ remote # {}
  /\ ~temp_exists
  /\ fs = {}
  /\ ~zip_exists

\* C19: the documentation of the session changes only when a run stores its
\* README, after acquisition, scan, analysis, generation and rendering have
\* all completed; every other step, and so every run that stops earlier,
\* leaves it as it was before the run.
C19_NoPartialOutput ==
  [][documentation' # documentation =>
       /\ pc = "render"
       /\ acq = "returned"
       /\ file_list # <<>>
       /\ file_i = Len(file_list) + 1
       /\ ~exc'
       /\ documentation' = runs]_vars

\* C19, witness: a run of a session that held an earlier README has ended
\* in an exception, and the session still holds the earlier README
C19_Witness ==
  /\ pc = "idle"
  /\ runs = 1
  /\ reported = "exception"
  /\ documentation = Earlier

\* the number of records of a language among the first n records
RECURSIVE RecordsOf(_, _, _)
RecordsOf(files, language, n) ==
  IF n = 0 THEN 0
  ELSE RecordsOf(files, language, n - 1)
         + (IF files[n].language = language THEN 1 ELSE 0)

\* the position of the first record of a language
FirstRecordOf(files, language) ==
  CHOOSE i \in 1..Len(files) :
    /\ files[i].language = language
    /\ \A j \in 1..(i - 1) : files[j].language # language

\* C21: main_language is a language of the greatest number of records; among
\* the languages that share the greatest number it is the one whose first
\* record comes earliest in the sequence; with no record it is 'unknown'.
C21_MainLanguage ==
  ret.fn = "structure" =>
    LET files == arg.files
        languages == {files[i].language : i \in 1..Len(files)}
        main == ret.info.main_language
    IN IF files = <<>> THEN main = "unknown"
       ELSE /\ main \in languages
            /\ \A l \in languages :
                 \/ RecordsOf(files, l, Len(files)) < RecordsOf(files, main, Len(files))
                 \/ /\ RecordsOf(files, l, Len(files)) = RecordsOf(files, main, Len(files))
                    /\ FirstRecordOf(files, main) <= FirstRecordOf(files, l)

\* three records, the first of a language of one record, the other two of one
\* language: the main language is not that of the first record
C21_Witness ==
  /\ ret.fn = "structure"
  /\ Len(arg.files) = 3
  /\ arg.files[2].language = arg.files[3].language
  /\ arg.files[1].language # arg.files[2].language
  /\ ret.info.main_language = arg.files[2].language

\* two records of two languages, one each: the first record's language wins
C21_WitnessTie ==
  /\ ret.fn = "structure"
  /\ Len(arg.files) = 2
  /\ arg.files[1].language # arg.files[2].language
  /\ ret.info.main_language = arg.files[1].language

(***************************************************************************)
(* CodeAnalyzer._extract_definitions on its own, on texts long enough to   *)
(* reach its two limits.  A text is a few blocks, a block one line written *)
(* a number of times; the lines are strings, so that their lengths and the *)
(* places of their brackets are those of the strings.                      *)
(***************************************************************************)
MaxBlocks == 3

MaxRepeat == 11

RECURSIVE Repeat(_, _)
\* s * n
Repeat(s, n) == IF n = 0 THEN "" ELSE s \o Repeat(s, n - 1)

\* a definition line whose form before the first bracket has n characters
DefLine(n) == "def " \o Repeat("a", n - 4) \o "(x):"

DefinitionLines ==
  {"x = 1", "def a():", "  class B {", DefLine(99), DefLine(100), DefLine(101)}

DefinitionSuffixes == {<<".py">>, <<".md">>}

Blocks == DefinitionLines \X {1, MaxRepeat - 1, MaxRepeat}

RECURSIVE LinesOf(_)
\* the lines of a sequence of blocks
LinesOf(blocks) ==
  IF blocks = <<>> THEN <<>>
  ELSE [i \in 1..Head(blocks)[2] |-> Head(blocks)[1]] \o LinesOf(Tail(blocks))

DefinitionTexts ==
  {LinesOf(b) : b \in UNION {[1..n -> Blocks] : n \in 0..MaxBlocks}}

InitDefinitions ==
  /\ Standalone
  /\ \E s \in DefinitionSuffixes, lines \in DefinitionTexts :
       arg = [fn |-> "definitions", suffix |-> s, lines |-> lines]

ExtractDefinitions ==
  /\ arg.fn = "definitions"
  /\ ret = NoCall
  /\ ret' = [fn |-> "definitions",
             definitions |-> extract_definitions(arg.lines, arg.suffix)]
  /\ UNCHANGED <<run, scratch, arg>>

NextDefinitions == ExtractDefinitions

SpecDefinitions == InitDefinitions /\ [][NextDefinitions]_vars

\* the forms of the qualifying lines of a text that are kept when only a
\* form of more than a hundred characters is discarded
KeptForms(lines, suffix) ==
  LET Qualifies(line) ==
        \E keyword \in definition_keywords(Lower(suffix)) :
          Contains(Strip(line), keyword)
      qualifying == SelectSeq(lines, Qualifies)
      forms == [i \in 1..Len(qualifying) |-> CleanLine(Strip(qualifying[i]))]
      UpTo100(form) == Len(form) <= 100
  IN SelectSeq(forms, UpTo100)

\* C22: the definitions are the first 20, in source order, of the forms of
\* the qualifying lines (each cut before its first '{' or '('), a form being
\* discarded only when it has more than 100 characters, so that a form of
\* exactly 100 characters is kept.
C22_Definitions ==
  ret.fn = "definitions" =>
    ret.definitions =
      SubSeq(KeptForms(arg.lines, arg.suffix), 1,
             IF Len(KeptForms(arg.lines, arg.suffix)) < 20
               THEN Len(KeptForms(arg.lines, arg.suffix)) ELSE 20)

(***************************************************************************)
(* validate_github_url, RepoManager._extract_repo_name and _get_zip_url on *)
(* their own, on the URLs made of a scheme and host, an owner, a           *)
(* repository name of a few tokens and an ending.  The name '..' is the    *)
(* token "." twice; no two tokens of a URL run together into another       *)
(* token.                                                                  *)
(***************************************************************************)
MaxName == 3

UrlHeads ==
  {<<"https://", "github.com", "/">>, <<"http://", "github.com", "/">>,
   <<"git@", "github.com", ":">>, <<"https://", "gitlab.com", "/">>}

UrlOwners == {<<"o">>, <<"o", ".git">>}

UrlNameTokens == {"repo", ".git", ".", "hub", ".io"}

UrlNames == UNION {[1..n -> UrlNameTokens] : n \in 1..MaxName}

UrlEndings == {<<>>, <<"/">>}

UrlTexts ==
  {h \o o \o <<"/">> \o n \o e :
     h \in UrlHeads, o \in UrlOwners, n \in UrlNames, e \in UrlEndings}

\* what the probes of _get_zip_url may answer, one status for each branch in
\* the order of the probes: failures of one kind up to a first 200, or
\* failures only
ProbeRuns(url) ==
  LET fails == ProbeStatuses(url) \ {"200"}
  IN {[i \in 1..Len(Branches) |-> f] : f \in fails}
     \cup {[i \in 1..Len(Branches) |-> IF i < k THEN f ELSE "200"] :
             f \in fails, k \in {j \in 1..Len(Branches) : "200" \in ProbeStatuses(url)}}

\* _get_zip_url(repo_url), the probes answering with the given statuses
get_zip_url(url, statuses) ==
  LET clean_url == CleanUrl(url)
      oks == {k \in 1..Len(Branches) : statuses[k] = "200"}
  IN IF ~IsGithubUrl(clean_url) THEN [raised |-> TRUE, zip_url |-> <<>>]
     ELSE IF oks # {}
       THEN [raised |-> FALSE,
             zip_url |-> ArchiveUrl(clean_url,
                                    Branches[CHOOSE k \in oks : \A j \in oks : k <= j])]
     ELSE [raised |-> FALSE, zip_url |-> ArchiveUrl(clean_url, "main")]

InitUrl ==
  /\ Standalone
  /\ \E fn \in {"validate", "repo_name", "zip_url"}, url \in UrlTexts :
       arg = [fn |-> fn, url |-> url]

ValidateGithubUrl ==
  /\ arg.fn = "validate"
  /\ ret = NoCall
  /\ ret' = [fn |-> "validate", valid |-> validate_github_url(arg.url)]
  /\ UNCHANGED <<run, scratch, arg>>

ExtractRepoName ==
  /\ arg.fn = "repo_name"
  /\ ret = NoCall
  /\ ret' = [fn |-> "repo_name", repo_name |-> extract_repo_name(arg.url)]
  /\ UNCHANGED <<run, scratch, arg>>

GetZipUrlOf ==
  /\ arg.fn = "zip_url"
  /\ ret = NoCall
  /\ \E statuses \in ProbeRuns(CleanUrl(arg.url)) :
       ret' = [fn |-> "zip_url", statuses |-> statuses,
               result |-> get_zip_url(arg.url, statuses)]
  /\ UNCHANGED <<run, scratch, arg>>

NextUrl == ValidateGithubUrl \/ ExtractRepoName \/ GetZipUrlOf

SpecUrl == InitUrl /\ [][NextUrl]_vars

\* a URL without its trailing slashes and without one '.git' at its end
WithoutGitSuffix(url) ==
  IF RstripSlash(url) # <<>> /\ Last(RstripSlash(url)) = ".git"
    THEN Front(RstripSlash(url))
    ELSE RstripSlash(url)

\* C23: the normalisation for the archive transport removes the trailing
\* slashes and a trailing '.git' and nothing else ('.git' inside an owner or
\* a repository name, as in name.github.io, stays), and the archive URL is
\* the normalised URL followed by /archive/refs/heads/<branch>.zip.
C23_Normalization ==
  (ret.fn = "zip_url" /\ ~ret.result.raised) =>
    \E branch \in Range(Branches) :
      ret.result.zip_url =
        WithoutGitSuffix(arg.url) \o <<"/archive/refs/heads/", branch, ".zip">>

\* C26: for every URL that validate_github_url accepts, the ssh form
\* git@github.com:owner/repo.git too, the archive fallback builds a download
\* URL of the form http(s)://github.com/<owner>/<repo>/archive/refs/heads/
\* <branch>.zip, which the HTTP client can fetch.
C26_FallbackUrl ==
  (ret.fn = "zip_url" /\ validate_github_url(arg.url)) =>
    /\ ~ret.result.raised
    /\ LET z == ret.result.zip_url
           n == Len(z)
           q == FirstSlashFrom(z, 4)
       IN /\ n >= 8
          /\ IsHttpUrl(z)
          /\ z[2] = "github.com"
          /\ z[3] = "/"
          /\ q > 4
          /\ IsNameRun(SubSeq(z, 4, q - 1))
          /\ IsNameRun(SubSeq(z, q + 1, n - 3))
          /\ z[n - 2] = "/archive/refs/heads/"
          /\ z[n - 1] \in Range(Branches)
          /\ z[n] = ".zip"

\* C27: for every URL that validate_github_url accepts, the repository name
\* that both transports put below the scratch directory is a name of a
\* strict descendant: not empty, not '.', not '..', and without a path
\* separator.
C27_TargetInsideScratch ==
  (ret.fn = "repo_name" /\ validate_github_url(arg.url)) =>
    /\ ret.repo_name # <<>>
    /\ ret.repo_name # <<".">>
    /\ ret.repo_name # <<".", ".">>
    /\ "/" \notin Range(ret.repo_name)

(***************************************************************************)
(* RepoManager._download_zip on its own, in an empty scratch directory,    *)
(* answered with an archive of any layout: the files of a repository below *)
(* one top-level directory <repo>-<branch> (the layout of the repository   *)
(* host), below a top-level directory of the repository's name, or         *)
(* directly at the top of the archive.                                     *)
(***************************************************************************)
ArchiveLayouts(name, tree) ==
  {ArchiveTree(name, "main", tree),
   {Dir(<<name>>)} \cup {Under(<<name>>, e) : e \in tree},
   tree}

ArchiveUrls ==
  {<<"https://", "github.com", "/", "o", "/", "repo">>,
   <<"https://", "gitlab.com", "/", "o", "/", "repo">>}

InitArchive ==
  /\ pc = "zip_url"
  /\ processing = FALSE
  /\ documentation = 0
  /\ runs = 0
  /\ repo_url \in ArchiveUrls
  /\ remote \in Trees
  /\ temp_exists = TRUE
  /\ fs = {}
  /\ zip_exists = FALSE
  /\ transports = <<"zip">>
  /\ clone_result = "none"
  /\ acq = "none"
  /\ probes = <<>>
  /\ zip_url = <<>>
  /\ repo_path = <<>>
  /\ file_list = <<>>
  /\ file_i = 1
  /\ analyzed_files = <<>>
  /\ warnings = 0
  /\ exc = FALSE
  /\ reported = "none"
  /\ \E archive \in ArchiveLayouts(extract_repo_name(repo_url), remote) :
       arg = [fn |-> "download_zip", archive |-> archive]
  /\ ret = NoCall

NextArchive == GetZipUrl \/ Download \/ Extract \/ MoveExtracted

SpecArchive == InitArchive /\ [][NextArchive]_vars

\* the directory at root holds a file of the repository: a file below root
\* whose path ends with the file's path in the repository, of the same bytes
HoldsFile(fsys, root, file) ==
  \E f \in fsys :
    /\ f.kind = "file"
    /\ Len(f.path) >= Len(root) + Len(file.path)
    /\ IsPrefix(root, f.path)
    /\ SubSeq(f.path, Len(f.path) - Len(file.path) + 1, Len(f.path)) = file.path
    /\ f.body = file.body

\* C25: when _download_zip returns, the path it returns is a directory that
\* holds the extracted content of the repository, whatever the layout of
\* the archive: no top-level directory, one, or several.
C25_ReturnedPathHoldsContent ==
  (arg.fn = "download_zip" /\ acq = "returned") =>
    /\ IsDir(fs, repo_path)
    /\ \A file \in remote : HoldsFile(fs, repo_path, file)

\* C24: for the records of analyzed files the archetype is one of Mobile
\* Application, Full-Stack Web Application, Frontend Web Application,
\* Backend API/Service and Software Project: a main language python comes
\* with a backend and a main language javascript with a frontend, so the
\* rows Python Application and JavaScript Application are never selected.
C24_LanguageRowsUnreachable ==
  ret.fn = "structure" =>
    /\ ret.info.project_type \in
         {"Mobile Application", "Full-Stack Web Application",
          "Frontend Web Application", "Backend API/Service", "Software Project"}
    /\ ret.info.main_language = "python" => ret.info.has_backend
    /\ ret.info.main_language = "javascript" => ret.info.has_frontend

\* records whose main language is javascript, with no backend and nothing
\* mobile: the archetype is that of the frontend row
C24_Witness ==
  /\ ret.fn = "structure"
  /\ ret.info.main_language = "javascript"
  /\ ~ret.info.has_backend
  /\ ~ret.info.has_mobile
  /\ ret.info.project_type = "Frontend Web Application"

\* C28: every extension of the scanner's supported-extension set has an
\* entry in the classifier's file-type table: the record of a file that the
\* scanner accepted for its extension never has the file type 'unknown'.
C28_TablesAgree ==
  \A i \in 1..Len(analyzed_files) :
    Lower(Suffix(Last(analyzed_files[i].file_path))) \in supported_extensions
      => analyzed_files[i].file_type # "unknown"

\* C29: within one run no two records of distinct scanned files have the
\* same relative_path.
C29_RelativePathUnique ==
  \A i, j \in 1..Len(analyzed_files) :
    analyzed_files[i].relative_path = analyzed_files[j].relative_path => i = j

\* C30: the processing flag is true from the start of a run until the run
\* ends and false once it has ended, by whatever path (success, early return
\* on zero scanned files, exception in any stage): whenever no run is in
\* progress the flag is false, which is what the button of a new run asks.
C30_ProcessingFlag ==
  /\ pc = "idle" => ~processing
  /\ pc # "idle" => processing

\* a run that ended in the except clause has been left: the flag is false
C30_Witness ==
  /\ pc = "idle"
  /\ runs = 1
  /\ reported = "exception"
  /\ ~processing

====
